---- MODULE Spec2Model ----
(***************************************************************************)
(* Model of the MCP channel normalization and routing layer:               *)
(*   - ChatRouter.route and its retry-decorated route_to_chat              *)
(*   - the generic webhook endpoint handle_webhook and verify_signature    *)
(*   - WhatsAppChannel construction and receive_message                    *)
(*   - the ChannelFactory registry and its discovery pass                  *)
(*   - WhatsAppChannel.send_message                                        *)
(*   - the Text, Image and Interactive normalizers                         *)
(***************************************************************************)
EXTENDS Integers, Sequences, FiniteSets, TLC

VARIABLES
    r_pc,        \* position of the current ChatRouter.route call
    r_msg,       \* the message argument of the current route call
    r_plan,      \* what the downstream engine answers to successive POSTs
    r_posts,     \* outcomes of the POST attempts made by the current call
    r_result,    \* value returned by route
    r_raised,    \* exception class that escaped route ("none" if none)
    r_cancelled, \* whether the task running the current route call was cancelled
    w_pc,        \* position of the current handle_webhook request
    w_req,       \* the request being handled
    w_verify,    \* result of verify_signature for it ("not_run" if not called)
    w_process,   \* number of webhook_handler.process calls made for it
    w_pending,   \* messages of the processed result not yet handed over
    w_handled,   \* number of message_service.handle_incoming_message calls
    w_exc,       \* exception class raised by webhook_handler.process ("none" if none)
    w_status,    \* HTTP status answered (0 while in flight)
    w_body,      \* body answered
    a_cfg,       \* configuration given to the last channel construction
    a_path,      \* how it was constructed: "direct" or through the factory
    a_adapter,   \* the adapter object the caller got back, if any
    a_raised,    \* exception class the construction raised ("none" if none)
    a_recv,      \* the last receive_message call on the adapter
    f_registry,  \* ChannelFactory._registry
    f_log,       \* the successful register_channel calls, oldest first
    f_op,        \* the last ChannelFactory operation
    f_arg,       \* the channel type and class given to it
    f_before,    \* the registry as it was before that operation
    f_raised,    \* exception class that operation raised ("none" if none)
    a_send,      \* the last send_message call on the adapter
    d_pkg,       \* the modules of the package scanned by the last initialize
    d_ran,       \* whether initialize has run
    d_raised,    \* exception class that escaped initialize ("none" if none)
    n_pc,        \* "pending" until the normalizer call has been made
    n_in,        \* the normalizer call: operation, normalizer, arguments
    n_out,       \* what the call returned or raised
    t_pc,        \* position of the current TextFormatter call
    t_in,        \* the formatter call: operation and arguments
    t_msg,       \* the content of the Message given to it, as it is now
    t_out,       \* what the call returned or raised
    t_result,    \* result of the strip_unsupported loop
    t_idx,       \* start_idx of the strip_unsupported loop
    g_calls,     \* the register_channel call of each thread
    cb_breaker,  \* RedisCacheClient.circuit_breaker
    cb_now,      \* time.time(), in seconds
    cb_call,     \* the last _execute_redis_command call
    cb_streak,   \* failed commands since the last successful one
    cm_conns,    \* ConnectionManager.active_connections
    cm_call,     \* the connect call that is suspended or has ended
    mc_cache,    \* MemoryCache._cache, each item with who set it
    mc_call      \* the last MemoryCache call and what it returned

routerVars ==
    <<r_pc, r_msg, r_plan, r_posts, r_result, r_raised, r_cancelled>>
webhookVars ==
    <<w_pc, w_req, w_verify, w_process, w_pending, w_handled, w_exc, w_status,
      w_body>>
adapterVars == <<a_cfg, a_path, a_adapter, a_raised, a_recv, a_send>>
discoveryVars == <<d_pkg, d_ran, d_raised>>
normVars == <<n_pc, n_in, n_out>>
factoryVars == <<f_registry, f_log, f_op, f_arg, f_before, f_raised>>

fmtVars == <<t_pc, t_in, t_msg, t_out, t_result, t_idx>>

\* the variables of the channel, webhook and normalizer parts
coreVars ==
    <<routerVars, webhookVars, adapterVars, factoryVars, discoveryVars,
      normVars>>

regVars == <<g_calls>>
cbVars == <<cb_breaker, cb_now, cb_call, cb_streak>>

cmVars == <<cm_conns, cm_call>>
mcVars == <<mc_cache, mc_call>>

\* the variables of the other parts
newVars == <<fmtVars, regVars, cbVars, cmVars, mcVars>>

vars == <<coreVars, newVars>>

----------------------------------------------------------------------------
(* Bounds *)

\* number of successive downstream answers the environment fixes per call
PlanLen == 3

\* largest number of leading "sha1=" prefixes of a signature header
MaxPrefixes == 2

\* largest number of successful register_channel calls in one run
MaxRegs == 3

\* largest number of modules in a package scanned by discovery
MaxModules == 2

\* number of threads that call register_channel at the same time
NumThreads == 2

Threads == 1..NumThreads

\* CircuitBreakerConfig.failure_threshold (5 in the source) and
\* reset_timeout (30 seconds in the source), scaled down
failure_threshold == 2
reset_timeout == 2

\* the seconds the clock runs
MaxTime == 5

----------------------------------------------------------------------------
(* ChatRouter *)

\* @retry_async(max_retries=3, ...) on route_to_chat
max_retries == 3

\* outcomes of one client.post(...) + raise_for_status() + response.json()
PostOutcomes ==
    {"ok", "ok_error", "status4xx", "status5xx", "connect_error", "timeout"}

\* the exception class the httpx call raises for an outcome
HttpxRaises(o) ==
    CASE o = "status4xx"     -> "HTTPStatusError"
      [] o = "status5xx"     -> "HTTPStatusError"
      [] o = "connect_error" -> "ConnectError"
      [] o = "timeout"       -> "TimeoutException"
      [] OTHER               -> "none"

\* a mutant of RetryableExceptions: a cancellation is retried as well
RetryableExceptionsAndCancel ==
    {"HTTPError", "HTTPStatusError", "ConnectError", "TimeoutException",
     "TimeoutError", "CancelledError"}

\* classes matched by the decorator's retryable_exceptions tuple
\* (httpx.HTTPError and its subclasses, asyncio.TimeoutError)
RetryableExceptions ==
    {"HTTPError", "HTTPStatusError", "ConnectError", "TimeoutException",
     "TimeoutError"}

\* a mutant of RouteToChatRaises: the httpx exception escapes unconverted
RouteToChatRaisesRaw(o) == HttpxRaises(o)

\* route_to_chat body: every exception of the POST is re-raised as RoutingError
RouteToChatRaises(o) ==
    IF HttpxRaises(o) # "none" THEN "RoutingError" ELSE "none"

\* retry_async: retry while the raised class is retryable and attempts remain
RetryAsyncRetries(exc, attempts) ==
    exc \in RetryableExceptions /\ attempts < max_retries

\* Message arguments: None, or an object whose attributes may be absent.
\* app.domain.models.message.Message defines message_id and no id/attachments
\* attribute (hasId = FALSE, hasAtt = FALSE).
NoneMessage ==
    [null |-> TRUE, hasId |-> FALSE, id |-> "", content |-> "",
     hasAtt |-> FALSE, att |-> FALSE]

Messages ==
    {NoneMessage} \cup
    { m \in [null : {FALSE}, hasId : BOOLEAN, id : {"", "m1"},
             content : {"", "hi"}, hasAtt : BOOLEAN, att : BOOLEAN] :
        /\ (~m.hasId => m.id = "")
        /\ (~m.hasAtt => ~m.att) }

\* a mutant of validate_message: the content-or-attachments check is dropped
validate_message_nocontent(m) ==
    IF m.null THEN "ValidationError"
    ELSE IF ~m.hasId THEN "AttributeError"
    ELSE IF m.id = "" THEN "ValidationError"
    ELSE "none"

\* RouterBase.validate_message: the exception it raises, "none" if it returns
validate_message(m) ==
    IF m.null THEN "ValidationError"
    ELSE IF ~m.hasId THEN "AttributeError"
    ELSE IF m.id = "" THEN "ValidationError"
    ELSE IF m.content = "" /\ ~m.hasAtt THEN "AttributeError"
    ELSE IF m.content = "" /\ ~m.att THEN "ValidationError"
    ELSE "none"

\* ChatRouter.build_request followed by track_message
build_request(m) ==
    IF ~m.hasId THEN "AttributeError"
    ELSE IF ~m.hasAtt THEN "AttributeError"
    ELSE "none"

NoResult ==
    [kind |-> "none", success |-> FALSE, errType |-> "none", message_id |-> ""]

\* RouterBase.handle_errors: reads message.id while building the envelope
handle_errors(exc, m) ==
    IF m.null \/ ~m.hasId
    THEN [raised |-> "AttributeError", result |-> NoResult]
    ELSE [raised |-> "none",
          result |-> [kind |-> "envelope", success |-> FALSE,
                      errType |-> exc, message_id |-> m.id]]

\* ChatRouter.handle_response
handle_response(o, m) ==
    IF o = "ok_error"
    THEN [kind |-> "downstream", success |-> FALSE, errType |-> "none",
          message_id |-> m.id]
    ELSE [kind |-> "routed", success |-> TRUE, errType |-> "none",
          message_id |-> m.id]

\* the answer of the downstream engine to the n-th POST of the call
PlannedOutcome(n) == r_plan[IF n <= Len(r_plan) THEN n ELSE Len(r_plan)]

\* route() up to its first await: validate, build_request, track_message;
\* the downstream engine's behaviour during the call is fixed here
RouteStart ==
    /\ r_pc = "idle"
    /\ r_plan' \in [1..PlanLen -> PostOutcomes]
    /\ \E m \in Messages :
        LET v == validate_message(m)
            b == IF v # "none" THEN v ELSE build_request(m)
            h == handle_errors(b, m)
        IN  /\ r_msg' = m
            /\ r_posts' = <<>>
            /\ r_cancelled' = FALSE
            /\ IF b = "none"
               THEN /\ r_pc' = "posting"
                    /\ r_result' = NoResult
                    /\ r_raised' = "none"
               ELSE /\ r_pc' = "done"
                    /\ r_result' = h.result
                    /\ r_raised' = h.raised
    /\ UNCHANGED <<webhookVars, adapterVars, factoryVars, discoveryVars, normVars, newVars>>

\* one POST attempt of route_to_chat under retry_async, then either a retry,
\* handle_response, or handle_errors
RouteAttempt ==
    /\ r_pc = "posting"
    /\ LET o   == PlannedOutcome(Len(r_posts) + 1)
           exc == RouteToChatRaises(o)
           n   == Len(r_posts) + 1
           h   == handle_errors(exc, r_msg)
       IN  /\ r_posts' = Append(r_posts, o)
           /\ IF exc = "none"
              THEN /\ r_pc' = "done"
                   /\ r_result' = handle_response(o, r_msg)
                   /\ r_raised' = "none"
              ELSE IF RetryAsyncRetries(exc, n)
              THEN /\ r_pc' = "posting"
                   /\ UNCHANGED <<r_result, r_raised>>
              ELSE /\ r_pc' = "done"
                   /\ r_result' = h.result
                   /\ r_raised' = h.raised
    /\ UNCHANGED <<r_msg, r_plan, r_cancelled, webhookVars, adapterVars,
                   factoryVars, discoveryVars, normVars, newVars>>

\* whether an `except Exception` clause catches the class:
\* asyncio.CancelledError derives from BaseException only
CaughtByException(exc) == exc # "CancelledError"

\* the task running route is cancelled while route_to_chat is suspended in
\* client.post: CancelledError is raised at the await and passes the except
\* clauses of route_to_chat, the retry decorator and the except of route
RouteCancel ==
    /\ r_pc = "posting"
    /\ ~r_cancelled
    /\ r_cancelled' = TRUE
    /\ LET exc == IF CaughtByException("CancelledError") THEN "RoutingError"
                  ELSE "CancelledError"
           h   == handle_errors(exc, r_msg)
       IN  IF RetryAsyncRetries(exc, Len(r_posts) + 1)
           THEN UNCHANGED <<r_pc, r_result, r_raised>>
           ELSE /\ r_pc' = "done"
                /\ r_result' = IF CaughtByException(exc) THEN h.result
                               ELSE NoResult
                /\ r_raised' = IF CaughtByException(exc) THEN h.raised
                               ELSE exc
    /\ UNCHANGED <<r_msg, r_plan, r_posts, webhookVars, adapterVars,
                   factoryVars, discoveryVars, normVars, newVars>>

\* the caller takes the outcome
RouteReturn ==
    /\ r_pc = "done"
    /\ r_pc' = "idle"
    /\ r_msg' = NoneMessage
    /\ r_plan' = [i \in 1..PlanLen |-> "ok"]
    /\ r_posts' = <<>>
    /\ r_result' = NoResult
    /\ r_raised' = "none"
    /\ r_cancelled' = FALSE
    /\ UNCHANGED <<webhookVars, adapterVars, factoryVars, discoveryVars, normVars, newVars>>

RouterNext == RouteStart \/ RouteAttempt \/ RouteCancel \/ RouteReturn

----------------------------------------------------------------------------
(* handle_webhook and verify_signature *)

Secrets == {"s1", "s2"}
Bodies == {"b1", "b2"}

\* hmac.new(secret, raw_body, sha1).hexdigest(): an ideal MAC, one digest per
\* (key, body) pair, distinct pairs giving distinct digests
HmacSha1(k, b) == <<"hmac", k, b>>

\* a hex string that is the digest of nothing
Garbage == <<"hmac", "none", "none">>

Digests == {HmacSha1(k, b) : k \in Secrets, b \in Bodies} \cup {Garbage}

\* X-Hub-Signature header values: absent, or n leading "sha1=" then a hex string
Signatures ==
    [present : BOOLEAN, prefixes : 0..MaxPrefixes, hex : Digests]

\* provided_signature[5:] when it starts with "sha1=", applied once
StripPrefix(sig) ==
    IF sig.prefixes > 0 THEN [sig EXCEPT !.prefixes = sig.prefixes - 1] ELSE sig

\* verify_signature: any exception (no "body" key in request.scope, a secret
\* of None) is caught and gives False
verify_signature(req) ==
    IF ~req.scopeHasBody \/ req.secret = "none" THEN FALSE
    ELSE LET expected == HmacSha1(req.secret, req.body)
             provided == StripPrefix(req.sig)
         IN  provided.prefixes = 0 /\ provided.hex = expected

\* a mutant of SignatureGate: the signature is checked only when a header is
\* provided
SignatureGateIfProvided(req, ok) ==
    IF req.requiresSig /\ req.sig.present /\ ~ok THEN 401 ELSE 0

\* the signature block of handle_webhook: the status it raises, 0 if it passes
SignatureGate(req, ok) ==
    IF req.requiresSig /\ ~req.sig.present THEN 401
    ELSE IF req.requiresSig /\ ~ok THEN 401
    ELSE 0

\* outcomes of channel_factory.get_channel(channel_id)
ChannelLookups == {"found", "KeyError", "AttributeError"}

\* outcomes of webhook_handler.process(payload): a result with n messages, or
\* the class of the exception it raises
ProcessOutcomes ==
    {"result0", "result1", "result2",
     "ValidationException", "ChannelException", "ValidationError",
     "NormalizationError", "MessageProcessingError"}

\* the classes an exception of class e is an instance of: the failure classes
\* of app.utils.exceptions are classes of their own, none of them a
\* ValidationException or a ChannelException of app.domain.exceptions
ExceptionClasses(e) == {e, "Exception"}

\* the classes named by the except clauses of handle_webhook
HandledClasses == {"ValidationException", "ChannelException"}

\* whether an except clause of handle_webhook catches an exception of class e
IsSwallowed(e) == ExceptionClasses(e) \cap HandledClasses # {}

Requests ==
    [lookup : ChannelLookups, requiresSig : BOOLEAN,
     secret : Secrets \cup {"none"}, body : Bodies, scopeHasBody : BOOLEAN,
     sig : { s \in Signatures : ~s.present => (s.prefixes = 0 /\ s.hex = Garbage) }]

NoRequest ==
    [lookup |-> "KeyError", requiresSig |-> FALSE, secret |-> "none",
     body |-> "b1", scopeHasBody |-> FALSE,
     sig |-> [present |-> FALSE, prefixes |-> 0, hex |-> Garbage]]

\* handle_webhook up to its first await: channel lookup and signature check
WebhookReceive ==
    /\ w_pc = "idle"
    /\ \E req \in Requests :
        LET needsVerify ==
                req.lookup = "found" /\ req.requiresSig /\ req.sig.present
            ok == verify_signature(req)
            st == IF req.lookup = "KeyError" THEN 404
                  ELSE IF req.lookup = "AttributeError" THEN 500
                  ELSE SignatureGate(req, ok)
        IN  /\ w_req' = req
            /\ w_verify' = IF needsVerify
                           THEN (IF ok THEN "true" ELSE "false")
                           ELSE "not_run"
            /\ w_status' = st
            /\ w_body' = IF st = 404 THEN "not found"
                         ELSE IF st = 401 /\ ~req.sig.present
                              THEN "Webhook signature required"
                         ELSE IF st = 401 THEN "Invalid webhook signature"
                         ELSE IF st = 500 THEN "internal error"
                         ELSE "none"
            /\ w_pc' = IF st = 0 THEN "processing" ELSE "done"
    /\ UNCHANGED <<w_process, w_pending, w_handled, w_exc>>
    /\ UNCHANGED <<routerVars, adapterVars, factoryVars, discoveryVars, normVars, newVars>>

\* await webhook_handler.process(payload) and the except clauses around it
WebhookProcess ==
    /\ w_pc = "processing"
    /\ \E o \in ProcessOutcomes :
        LET n == CASE o = "result1" -> 1 [] o = "result2" -> 2 [] OTHER -> 0
        IN  /\ w_process' = w_process + 1
            /\ w_pending' = n
            /\ w_exc' = IF o \in {"result0", "result1", "result2"}
                        THEN "none" ELSE o
            /\ IF o \notin {"result0", "result1", "result2"} /\ IsSwallowed(o)
               THEN /\ w_pc' = "done"
                    /\ w_status' = 200
                    /\ w_body' = "status error"
               ELSE IF o \notin {"result0", "result1", "result2"}
               THEN /\ w_pc' = "done"
                    /\ w_status' = 500
                    /\ w_body' = "internal error"
               ELSE IF n = 0
               THEN /\ w_pc' = "done"
                    /\ w_status' = 200
                    /\ w_body' = "handler response"
               ELSE /\ w_pc' = "handling"
                    /\ UNCHANGED <<w_status, w_body>>
    /\ UNCHANGED <<w_req, w_verify, w_handled>>
    /\ UNCHANGED <<routerVars, adapterVars, factoryVars, discoveryVars, normVars, newVars>>

\* one await message_service.handle_incoming_message(...) of the loop; after
\* the last one the handler's response is returned
WebhookHandleMessage ==
    /\ w_pc = "handling"
    /\ w_pending > 0
    /\ w_handled' = w_handled + 1
    /\ UNCHANGED w_exc
    /\ w_pending' = w_pending - 1
    /\ IF w_pending = 1
       THEN /\ w_pc' = "done"
            /\ w_status' = 200
            /\ w_body' = "handler response"
       ELSE UNCHANGED <<w_pc, w_status, w_body>>
    /\ UNCHANGED <<w_req, w_verify, w_process>>
    /\ UNCHANGED <<routerVars, adapterVars, factoryVars, discoveryVars, normVars, newVars>>

\* the response is sent; the endpoint serves the next request
WebhookRespond ==
    /\ w_pc = "done"
    /\ w_pc' = "idle"
    /\ w_req' = NoRequest
    /\ w_verify' = "not_run"
    /\ w_process' = 0
    /\ w_pending' = 0
    /\ w_handled' = 0
    /\ w_exc' = "none"
    /\ w_status' = 0
    /\ w_body' = "none"
    /\ UNCHANGED <<routerVars, adapterVars, factoryVars, discoveryVars, normVars, newVars>>

WebhookNext ==
    WebhookReceive \/ WebhookProcess \/ WebhookHandleMessage \/ WebhookRespond

----------------------------------------------------------------------------
(* Channel configuration and WhatsAppChannel construction *)

\* required fields of ChannelConfig
BaseKeys == {"channel_id", "tenant_id"}

\* required fields of WhatsAppChannelConfig
ConfigKeys ==
    BaseKeys \cup {"phone_number_id", "business_account_id", "access_token"}

\* phone_number_id values, as sequences of characters
PhoneValues == {<<>>, <<"1", "2">>, <<"1", "a">>}

DigitChars == {"0", "1", "2", "3", "4", "5", "6", "7", "8", "9"}

\* str.isdigit()
IsDigit(v) == v # <<>> /\ \A i \in 1..Len(v) : v[i] \in DigitChars

\* a configuration: a dict, or an already built config object ("typed") whose
\* fields may have been set without validation; present = the fields it holds
Configs ==
    [form : {"dict", "typed"}, present : SUBSET ConfigKeys,
     phone : PhoneValues, secret : {"none", "s1"}]

\* a mutant of validate_phone_number_id: any non-empty string is accepted
validate_phone_number_id_nonempty(v) == v # <<>>

\* WhatsAppChannelConfig.validate_phone_number_id
validate_phone_number_id(v) == ~(v = <<>> \/ ~IsDigit(v))

\* WhatsAppChannelConfig(**fields): TRUE when pydantic accepts the fields
WhatsAppChannelConfigAccepts(cfg) ==
    /\ ConfigKeys \subseteq cfg.present
    /\ validate_phone_number_id(cfg.phone)

\* WhatsAppChannel.validate_config, as called from BaseChannel.__init__ (the
\* object has no whatsapp_config attribute yet, so the fields are re-validated)
WhatsAppValidateConfig(cfg) == WhatsAppChannelConfigAccepts(cfg)

\* BaseChannel.__init__ for a WhatsAppChannel: TRUE when it returns normally
BaseChannelInit(cfg) ==
    /\ BaseKeys \subseteq cfg.present
    /\ WhatsAppValidateConfig(cfg)

\* WhatsAppClient(...) in WhatsAppChannel.__init__: reads the fields it needs
ClientInit(cfg) == {"phone_number_id", "access_token"} \subseteq cfg.present

NoAdapter ==
    [exists |-> FALSE, state |-> "Unconfigured", validated |-> FALSE,
     client |-> FALSE, secret |-> "none"]

\* WhatsAppChannel.__init__: the steps run in order inside one try block; the
\* first that fails raises ChannelConfigError and the caller gets no object.
\* adapter records how far the object got and whether it was returned.
WhatsAppChannelInit(cfg) ==
    LET parsed    == cfg.form = "typed" \/ WhatsAppChannelConfigAccepts(cfg)
        validated == parsed /\ BaseChannelInit(cfg)
        client    == validated /\ ClientInit(cfg)
        raised    == IF client THEN "none" ELSE "ChannelConfigError"
    IN  [raised |-> raised,
         adapter |-> [exists |-> (raised = "none"),
                      state |-> IF client THEN "Ready"
                                ELSE IF validated THEN "Validated"
                                ELSE "Unconfigured",
                      validated |-> validated,
                      client |-> client,
                      secret |-> cfg.secret]]

----------------------------------------------------------------------------
(* ChannelFactory *)

ChannelTypes == {"", "whatsapp", "sms"}

\* values given as channel_class; "dict" is not a BaseChannel subclass
ChannelClasses == {"WhatsAppChannel", "SmsChannel", "dict"}

IsChannelClass(c) == c \in {"WhatsAppChannel", "SmsChannel"}

\* the registry after app.channels is imported: "whatsapp" is registered
InitialRegistry ==
    [t \in ChannelTypes |-> IF t = "whatsapp" THEN "WhatsAppChannel" ELSE "none"]

\* a mutant of register_channel: a duplicate registration is rejected
register_channel_reject_duplicate(reg, t, c) ==
    IF t = "" THEN [raised |-> "ChannelRegistrationError", registry |-> reg]
    ELSE IF ~IsChannelClass(c)
    THEN [raised |-> "ChannelRegistrationError", registry |-> reg]
    ELSE IF reg[t] # "none"
    THEN [raised |-> "ChannelRegistrationError", registry |-> reg]
    ELSE [raised |-> "none", registry |-> [reg EXCEPT ![t] = c]]

\* ChannelFactory.register_channel
register_channel(reg, t, c) ==
    IF t = "" THEN [raised |-> "ChannelRegistrationError", registry |-> reg]
    ELSE IF ~IsChannelClass(c)
    THEN [raised |-> "ChannelRegistrationError", registry |-> reg]
    ELSE [raised |-> "none", registry |-> [reg EXCEPT ![t] = c]]

\* ChannelFactory.create_channel: channel_class(config), exceptions re-raised
create_channel(reg, t, cfg) ==
    IF reg[t] = "none"
    THEN [raised |-> "ChannelNotFoundError", adapter |-> NoAdapter]
    ELSE WhatsAppChannelInit(cfg)

\* ChannelFactory.get_channel_types
get_channel_types(reg) == {t \in ChannelTypes : reg[t] # "none"}

\* ChannelFactory.get_channel_config
get_channel_config(reg, t) ==
    IF reg[t] = "none" THEN "ChannelNotFoundError" ELSE "none"

RegisterChannel ==
    /\ Len(f_log) < MaxRegs + 1
    /\ \E t \in ChannelTypes, c \in ChannelClasses :
        LET r == register_channel(f_registry, t, c)
        IN  /\ f_op' = "register_channel"
            /\ f_arg' = <<t, c>>
            /\ f_before' = f_registry
            /\ f_registry' = r.registry
            /\ f_raised' = r.raised
            /\ f_log' = IF r.raised = "none"
                        THEN Append(f_log, <<t, c>>) ELSE f_log
    /\ UNCHANGED <<routerVars, webhookVars, adapterVars, discoveryVars, normVars, newVars>>

\* a thread enters register_channel: the arguments are checked, then the
\* duplicate check reads the registry (dup: the type was there)
RegisterCheck ==
    /\ Len(f_log) + Cardinality({q \in Threads : g_calls[q].pc = "checked"})
         < MaxRegs + 1
    /\ \E p \in Threads, t \in ChannelTypes, c \in ChannelClasses :
        /\ g_calls[p].pc = "idle"
        /\ g_calls' =
             [g_calls EXCEPT ![p] =
                [pc |-> IF register_channel(f_registry, t, c).raised = "none"
                        THEN "checked" ELSE "idle",
                 t |-> t, c |-> c,
                 dup |-> f_registry[t] # "none",
                 raised |-> register_channel(f_registry, t, c).raised]]
    /\ UNCHANGED <<factoryVars, routerVars, webhookVars, adapterVars,
                   discoveryVars, normVars, fmtVars, cbVars, cmVars, mcVars>>

\* a mutant of RegisterWrite: the thread writes back a copy of the registry
\* taken at import, with its own entry added
RegisterWriteCopy ==
    /\ \E p \in Threads :
        /\ g_calls[p].pc = "checked"
        /\ f_op' = "register_channel"
        /\ f_arg' = <<g_calls[p].t, g_calls[p].c>>
        /\ f_before' = f_registry
        /\ f_registry' = [InitialRegistry EXCEPT ![g_calls[p].t] = g_calls[p].c]
        /\ f_raised' = "none"
        /\ f_log' = Append(f_log, <<g_calls[p].t, g_calls[p].c>>)
        /\ g_calls' = [g_calls EXCEPT ![p].pc = "idle"]
    /\ UNCHANGED <<routerVars, webhookVars, adapterVars, discoveryVars,
                   normVars, fmtVars, cbVars, cmVars, mcVars>>

\* the thread stores cls._registry[channel_type] = channel_class and returns
RegisterWrite ==
    /\ \E p \in Threads :
        /\ g_calls[p].pc = "checked"
        /\ f_op' = "register_channel"
        /\ f_arg' = <<g_calls[p].t, g_calls[p].c>>
        /\ f_before' = f_registry
        /\ f_registry' = [f_registry EXCEPT ![g_calls[p].t] = g_calls[p].c]
        /\ f_raised' = "none"
        /\ f_log' = Append(f_log, <<g_calls[p].t, g_calls[p].c>>)
        /\ g_calls' = [g_calls EXCEPT ![p].pc = "idle"]
    /\ UNCHANGED <<routerVars, webhookVars, adapterVars, discoveryVars,
                   normVars, fmtVars, cbVars, cmVars, mcVars>>

\* register_channel called from several threads
RegistrationNext == RegisterCheck \/ RegisterWrite

\* configurations used when the factory itself is exercised
FactoryConfigs ==
    { cfg \in Configs : cfg.form = "dict" /\ cfg.secret = "none"
                        /\ cfg.phone = <<"1", "2">>
                        /\ cfg.present \in {ConfigKeys, BaseKeys} }

CreateChannel ==
    /\ \E t \in ChannelTypes, cfg \in FactoryConfigs :
        LET r == create_channel(f_registry, t, cfg)
        IN  /\ f_op' = "create_channel"
            /\ f_arg' = <<t, "none">>
            /\ f_before' = f_registry
            /\ f_raised' = r.raised
    /\ UNCHANGED <<f_registry, f_log>>
    /\ UNCHANGED <<routerVars, webhookVars, adapterVars, discoveryVars, normVars, newVars>>

GetChannelTypes ==
    /\ f_op' = "get_channel_types"
    /\ f_arg' = <<"", "none">>
    /\ f_before' = f_registry
    /\ f_raised' = "none"
    /\ UNCHANGED <<f_registry, f_log>>
    /\ UNCHANGED <<routerVars, webhookVars, adapterVars, discoveryVars, normVars, newVars>>

GetChannelConfig ==
    /\ \E t \in ChannelTypes :
        /\ f_op' = "get_channel_config"
        /\ f_arg' = <<t, "none">>
        /\ f_before' = f_registry
        /\ f_raised' = get_channel_config(f_registry, t)
    /\ UNCHANGED <<f_registry, f_log>>
    /\ UNCHANGED <<routerVars, webhookVars, adapterVars, discoveryVars, normVars, newVars>>

FactoryNext ==
    RegisterChannel \/ CreateChannel \/ GetChannelTypes \/ GetChannelConfig

----------------------------------------------------------------------------
(* ChannelFactory discovery *)

\* a module of the scanned package: whether importing it succeeds, the
\* BaseChannel subclass it defines (if any), whether it lies in a sub-package
Modules ==
    [importable : BOOLEAN, cls : {"none", "SmsChannel", "WhatsAppChannel"},
     sub : BOOLEAN]

Packages == UNION { [1..n -> Modules] : n \in 1..MaxModules }

\* attr_name.lower() less its "channel" suffix
ChannelTypeName(c) ==
    CASE c = "SmsChannel" -> "sms"
      [] c = "WhatsAppChannel" -> "whatsapp"
      [] OTHER -> ""

\* importlib.util.iter_modules([package_dir]): importlib.util defines no
\* iter_modules (pkgutil does), so evaluating it raises AttributeError
IterModulesRaises == TRUE

\* the body of the loop for one module: import it, register its channel
\* class; an exception is logged and the loop goes on
DiscoverModule(reg, m) ==
    IF ~m.importable \/ m.cls = "none" THEN reg
    ELSE register_channel(reg, ChannelTypeName(m.cls), m.cls).registry

RECURSIVE DiscoverAll(_, _)
\* the loop over the modules of the package and of its sub-packages
DiscoverAll(reg, mods) ==
    IF mods = <<>> THEN reg
    ELSE DiscoverAll(DiscoverModule(reg, Head(mods)), Tail(mods))

\* ChannelFactory._discover_channels: the outer except logs and returns
discover_channels(reg, pkg) ==
    IF IterModulesRaises THEN reg ELSE DiscoverAll(reg, pkg)

\* the successful registrations a discovery pass adds to the log
DiscoverLog(log, pkg) ==
    IF IterModulesRaises THEN log
    ELSE log \o [i \in 1..Len(SelectSeq(pkg, LAMBDA m : m.importable /\ m.cls # "none"))
                   |-> LET m == SelectSeq(pkg, LAMBDA x : x.importable /\ x.cls # "none")[i]
                       IN  <<ChannelTypeName(m.cls), m.cls>>]

\* ChannelFactory.initialize
Initialize ==
    /\ \E pkg \in Packages :
        /\ d_pkg' = pkg
        /\ f_before' = f_registry
        /\ f_registry' = discover_channels(f_registry, pkg)
        /\ f_log' = DiscoverLog(f_log, pkg)
    /\ d_ran' = TRUE
    /\ d_raised' = "none"
    /\ f_op' = "initialize"
    /\ f_arg' = <<"", "none">>
    /\ f_raised' = "none"
    /\ UNCHANGED <<routerVars, webhookVars, adapterVars, normVars, newVars>>

DiscoveryNext == Initialize

----------------------------------------------------------------------------
(* WhatsAppChannel adapter: construction and receive_message *)

\* how the sender signed the webhook payload handed to receive_message
SigStatuses == {"unsigned", "wrong", "valid"}

PayloadKinds == {"text", "image", "empty"}

NoReceive ==
    [ran |-> FALSE, sig |-> "unsigned", payload |-> "empty",
     normalizeRan |-> FALSE, raised |-> "none", returned |-> FALSE]

\* WhatsAppChannel.normalize_message: Message(...) is called with the keyword
\* raw_payload, which Message.__init__ does not take, so it always raises
normalize_message(payload) == "MessageProcessingError"

\* WhatsAppChannel.receive_message: the webhook_secret branch is a no-op
receive_message(adapter, payload, sig) ==
    LET n == normalize_message(payload)
    IN  [ran |-> TRUE, sig |-> sig, payload |-> payload,
         normalizeRan |-> TRUE,
         raised |-> IF n = "none" THEN "none" ELSE "MessageProcessingError",
         returned |-> (n = "none")]

\* members of the MessageType enum (MEDIA is not one of them)
MessageTypeMembers ==
    {"TEXT", "IMAGE", "AUDIO", "VIDEO", "DOCUMENT", "LOCATION", "CONTACT",
     "INTERACTIVE", "TEMPLATE", "UNKNOWN"}

\* the value of a MessageType member
MemberValue(member) ==
    CASE member = "TEXT" -> "text" [] member = "IMAGE" -> "image"
      [] member = "AUDIO" -> "audio" [] member = "VIDEO" -> "video"
      [] member = "DOCUMENT" -> "document" [] member = "LOCATION" -> "location"
      [] member = "CONTACT" -> "contact" [] member = "INTERACTIVE" -> "interactive"
      [] member = "TEMPLATE" -> "template" [] member = "UNKNOWN" -> "unknown"
      [] OTHER -> "none"

\* message_type values given to send_message
SendTypes == {MemberValue(m) : m \in MessageTypeMembers} \cup {"media"}

\* message.content: a mapping (has .get) or a plain string
ContentShapes == {"dict", "str"}

\* what the outbound client's send_* call does
ClientOutcomes == {"ok", "APIConnectionError"}

RECURSIVE Dispatch(_, _)
\* an if/elif chain `message_type == MessageType.<member>` over the members
\* in chain: the member of the branch taken, "else" when none matches,
\* "AttributeError" when a member that the enum lacks is evaluated first
Dispatch(t, chain) ==
    IF chain = <<>> THEN "else"
    ELSE IF Head(chain) \notin MessageTypeMembers THEN "AttributeError"
    ELSE IF t = MemberValue(Head(chain)) THEN Head(chain)
    ELSE Dispatch(t, Tail(chain))

\* the branches of format_response, in order
FormatChain == <<"TEXT", "TEMPLATE", "MEDIA", "INTERACTIVE", "LOCATION">>

\* the branches of send_message, in order
SendChain == <<"TEXT", "TEMPLATE", "MEDIA", "INTERACTIVE">>

\* WhatsAppChannel.format_response: the exception it raises ("none" if it
\* returns the formatted message)
format_response(t, c) ==
    LET b == Dispatch(t, FormatChain)
    IN  IF b = "AttributeError" \/ b = "else" THEN "MessageProcessingError"
        ELSE IF c # "dict" THEN "MessageProcessingError"
        ELSE "none"

\* the client method of a send_message branch
ClientMethod(b) ==
    CASE b = "TEXT" -> "send_text" [] b = "TEMPLATE" -> "send_template"
      [] b = "MEDIA" -> "send_media" [] b = "INTERACTIVE" -> "send_interactive"
      [] OTHER -> "none"

NoSend ==
    [ran |-> FALSE, type |-> "text", content |-> "dict", client |-> "ok",
     calls |-> <<>>, raised |-> "none", receipt |-> {}]

\* WhatsAppChannel.send_message: the client calls made, the exception raised
\* and the keys of the receipt returned
send_message(t, c, o) ==
    LET f == format_response(t, c)
        b == Dispatch(t, SendChain)
        called == f = "none" /\ b \notin {"AttributeError", "else"}
        sent == called /\ o = "ok"
    IN  [ran |-> TRUE, type |-> t, content |-> c, client |-> o,
         calls |-> IF called THEN <<ClientMethod(b)>> ELSE <<>>,
         raised |-> IF sent THEN "none" ELSE "MessageProcessingError",
         receipt |-> IF sent
                     THEN {"channel_message_id", "status", "recipient_id",
                           "timestamp", "raw_response"}
                     ELSE {}]

\* WhatsAppChannel(config), directly or through ChannelFactory.create_channel
ConstructChannel ==
    /\ a_path = "none"
    /\ \E cfg \in Configs, path \in {"direct", "factory"} :
        LET r == IF path = "direct" THEN WhatsAppChannelInit(cfg)
                 ELSE create_channel(f_registry, "whatsapp", cfg)
        IN  /\ a_cfg' = cfg
            /\ a_path' = path
            /\ a_adapter' = r.adapter
            /\ a_raised' = r.raised
            /\ a_recv' = NoReceive
            /\ a_send' = NoSend
    /\ UNCHANGED <<routerVars, webhookVars, factoryVars, discoveryVars, normVars, newVars>>

\* the caller lets go of the adapter (or of the exception) it got
DropChannel ==
    /\ a_path # "none"
    /\ a_cfg' = [form |-> "dict", present |-> {}, phone |-> <<>>,
                 secret |-> "none"]
    /\ a_path' = "none"
    /\ a_adapter' = NoAdapter
    /\ a_raised' = "none"
    /\ a_recv' = NoReceive
    /\ a_send' = NoSend
    /\ UNCHANGED <<routerVars, webhookVars, factoryVars, discoveryVars, normVars, newVars>>

\* adapter.receive_message(payload) on the adapter the caller holds
ReceiveMessage ==
    /\ a_adapter.exists
    /\ \E p \in PayloadKinds, sig \in SigStatuses :
        a_recv' = receive_message(a_adapter, p, sig)
    /\ UNCHANGED <<a_cfg, a_path, a_adapter, a_raised, a_send>>
    /\ UNCHANGED <<routerVars, webhookVars, factoryVars, discoveryVars, normVars, newVars>>

\* adapter.send_message(message) on the adapter the caller holds
SendMessage ==
    /\ a_adapter.exists
    /\ \E t \in SendTypes, c \in ContentShapes, o \in ClientOutcomes :
        a_send' = send_message(t, c, o)
    /\ UNCHANGED <<a_cfg, a_path, a_adapter, a_raised, a_recv>>
    /\ UNCHANGED <<routerVars, webhookVars, factoryVars, discoveryVars, normVars, newVars>>

AdapterNext ==
    ConstructChannel \/ DropChannel \/ ReceiveMessage \/ SendMessage

----------------------------------------------------------------------------
(* Normalizers: values, sender extraction, clean_text, handle_url *)

\* longest text given to clean_text
MaxText == 5

\* largest max_length a TextNormalizer is configured with
MaxLength == 4

\* most buttons in an interactive payload
MaxButtons == 2
MaxFmtText == 5

\* a key that the payload does not have
Absent == [t |-> "absent", v |-> ""]

\* a str value of a payload
PyStr(s) == [t |-> "str", v |-> s]

\* str(value): the text of a str or of an int
Str(x) == x.v

NormalizerKinds == {"text", "image", "interactive"}

\* a mutant of SenderFieldOrder: sender looked up before sender_id
SenderFieldOrderSwapped ==
    <<"sender", "sender_id", "from", "user_id", "from_user">>

\* the alias fields of _extract_sender_id, in the order they are tried
SenderFieldOrder == <<"sender_id", "sender", "from", "user_id", "from_user">>

AliasNames == {SenderFieldOrder[i] : i \in 1..Len(SenderFieldOrder)}

RECURSIVE FirstPresent(_, _)
\* `for field in order: if field in d: return d[field]`
FirstPresent(d, order) ==
    IF order = <<>> THEN Absent
    ELSE IF d[Head(order)] # Absent THEN d[Head(order)]
    ELSE FirstPresent(d, Tail(order))

\* _extract_sender_id of the three normalizers
extract_sender_id(d) ==
    LET x == FirstPresent(d, SenderFieldOrder)
    IN  IF x = Absent THEN [raised |-> "KeyError", value |-> ""]
        ELSE [raised |-> "none", value |-> Str(x)]

\* characters of a text: a letter, a blank, a newline, a form feed (a control
\* character of the class clean_text removes)
Chars == {"a", " ", "\n", "\f"}

Texts == UNION { [1..n -> Chars] : n \in 0..MaxText }

\* [\x00-\x08\x0B\x0C\x0E-\x1F\x7F]
IsControl(c) == c = "\f"

\* \s
IsSpace(c) == c \in {" ", "\n"}

RECURSIVE LStrip(_)
LStrip(s) ==
    IF s = <<>> THEN s
    ELSE IF IsSpace(Head(s)) THEN LStrip(Tail(s))
    ELSE s

RECURSIVE RStrip(_)
RStrip(s) ==
    IF s = <<>> THEN s
    ELSE IF IsSpace(s[Len(s)]) THEN RStrip(SubSeq(s, 1, Len(s) - 1))
    ELSE s

RECURSIVE CollapseSpaces(_)
\* re.sub(r'\s+', ' ', s)
CollapseSpaces(s) ==
    IF s = <<>> THEN s
    ELSE IF IsSpace(Head(s))
         THEN <<" ">> \o CollapseSpaces(LStrip(Tail(s)))
    ELSE <<Head(s)>> \o CollapseSpaces(Tail(s))

\* s[:k], k negative counting from the end
SliceTo(s, k) ==
    LET n == IF k >= 0 THEN (IF k < Len(s) THEN k ELSE Len(s))
             ELSE (IF Len(s) + k > 0 THEN Len(s) + k ELSE 0)
    IN  SubSeq(s, 1, n)

\* a mutant of Truncate: cuts at max_length and then appends the dots
TruncateLate(s, max_length) == SliceTo(s, max_length) \o <<".", ".", ".">>

\* text[:self.max_length - 3] + "..."
Truncate(s, max_length) == SliceTo(s, max_length - 3) \o <<".", ".", ".">>

\* the text after the two re.sub calls of clean_text
Cleaned(text) ==
    CollapseSpaces(RStrip(LStrip(SelectSeq(text, LAMBDA c : ~IsControl(c)))))

\* TextNormalizer.clean_text
clean_text(text, max_length) ==
    IF text = <<>> THEN <<>>
    ELSE IF Len(Cleaned(text)) > max_length
         THEN Truncate(Cleaned(text), max_length)
    ELSE Cleaned(text)

\* image references
Refs ==
    {"https://x/y.png", "http://x/y.png", "HTTP://x/y.png", "ftp://x/y.png",
     "file:///y.png", "http:y.png", "https://x/y.exe", "https://x/y",
     "//cdn/y.png", "file123", ""}

\* urllib.parse.urlparse(ref): scheme (lower-cased), netloc and the extension
\* of the path
urlparse(ref) ==
    CASE ref = "https://x/y.png" -> [scheme |-> "https", netloc |-> "x", ext |-> ".png"]
      [] ref = "http://x/y.png" -> [scheme |-> "http", netloc |-> "x", ext |-> ".png"]
      [] ref = "HTTP://x/y.png" -> [scheme |-> "http", netloc |-> "x", ext |-> ".png"]
      [] ref = "ftp://x/y.png" -> [scheme |-> "ftp", netloc |-> "x", ext |-> ".png"]
      [] ref = "file:///y.png" -> [scheme |-> "file", netloc |-> "", ext |-> ".png"]
      [] ref = "http:y.png" -> [scheme |-> "http", netloc |-> "", ext |-> ".png"]
      [] ref = "https://x/y.exe" -> [scheme |-> "https", netloc |-> "x", ext |-> ".exe"]
      [] ref = "https://x/y" -> [scheme |-> "https", netloc |-> "x", ext |-> ""]
      [] ref = "//cdn/y.png" -> [scheme |-> "", netloc |-> "cdn", ext |-> ".png"]
      [] OTHER -> [scheme |-> "", netloc |-> "", ext |-> ""]

\* re.match(r'^(http|https|file)://', url), case-sensitive
HasSchemePrefix(ref) ==
    ref \in {"https://x/y.png", "http://x/y.png", "file:///y.png",
             "https://x/y.exe", "https://x/y"}

\* ImageNormalizer._is_url
is_url(ref) ==
    /\ ref # ""
    /\ urlparse(ref).scheme # ""
    /\ urlparse(ref).netloc # ""

\* ImageNormalizer._get_mime_type_from_url ("none" if undetermined)
get_mime_type_from_url(ref) ==
    CASE urlparse(ref).ext = ".png" -> "image/png"
      [] urlparse(ref).ext = ".exe" -> "application/x-msdos-program"
      [] OTHER -> "none"

SUPPORTED_IMAGE_TYPES ==
    {"image/jpeg", "image/jpg", "image/png", "image/gif", "image/webp",
     "image/tiff", "image/bmp"}

SUPPORTED_IMAGE_EXTENSIONS ==
    {".jpg", ".jpeg", ".png", ".gif", ".webp", ".tiff", ".bmp"}

\* ImageNormalizer.handle_url
handle_url(ref, allow_remote_urls, verify_mime_type) ==
    IF ~is_url(ref)
    THEN [raised |-> "none", is_url |-> FALSE, is_valid |-> TRUE]
    ELSE IF ~allow_remote_urls /\ urlparse(ref).scheme \in {"http", "https"}
    THEN [raised |-> "ValidationError", is_url |-> TRUE, is_valid |-> FALSE]
    ELSE IF ~HasSchemePrefix(ref)
    THEN [raised |-> "ValidationError", is_url |-> TRUE, is_valid |-> FALSE]
    ELSE IF verify_mime_type /\ get_mime_type_from_url(ref) # "none"
            /\ get_mime_type_from_url(ref) \notin SUPPORTED_IMAGE_TYPES
    THEN [raised |-> "ValidationError", is_url |-> TRUE, is_valid |-> FALSE]
    ELSE IF verify_mime_type /\ get_mime_type_from_url(ref) = "none"
            /\ urlparse(ref).ext # ""
            /\ urlparse(ref).ext \notin SUPPORTED_IMAGE_EXTENSIONS
    THEN [raised |-> "ValidationError", is_url |-> TRUE, is_valid |-> FALSE]
    ELSE [raised |-> "none", is_url |-> TRUE, is_valid |-> TRUE]

----------------------------------------------------------------------------
(* Normalizers: Message, normalize, denormalize *)

\* the keyword parameters of Message.__init__, each stored as the attribute
\* of the same name
MessageInitParams ==
    {"message_id", "tenant_id", "channel_id", "conversation_id", "sender_id",
     "recipient_id", "message_type", "content_type", "content", "metadata",
     "timestamp", "channel_message_id"}

\* metadata holds the two keys the interactive normalizer sets ("" and -1
\* when the key is absent)
NoMessage ==
    [exists |-> FALSE, tenant_id |-> "", channel_id |-> "", sender_id |-> "",
     message_type |-> "", content_type |-> "", content |-> <<>>,
     ts |-> "datetime",
     metadata |-> [interactive_type |-> "", interactive_count |-> -1]]

\* Message(**kw): a keyword that __init__ does not take raises TypeError;
\* parameters not given keep their defaults (content_type "")
MessageInit(keys, kw) ==
    IF ~(keys \subseteq MessageInitParams)
    THEN [raised |-> "TypeError", message |-> NoMessage]
    ELSE [raised |-> "none",
          message |-> [exists |-> TRUE, tenant_id |-> kw.tenant_id,
                       channel_id |-> kw.channel_id,
                       sender_id |-> kw.sender_id,
                       message_type |-> kw.message_type,
                       content_type |-> "", content |-> kw.content,
                       ts |-> kw.ts, metadata |-> NoMessage.metadata]]

\* Message.validate: the exception it raises ("none" if it returns True)
MessageValidate(m, contentIsStr) ==
    IF \/ m.tenant_id = ""
       \/ m.channel_id = ""
       \/ m.message_type = ""
       \/ m.content_type = ""
       \/ (m.message_type = "text"
           /\ (m.content_type # "text/plain" \/ ~contentIsStr))
       \/ (m.message_type = "image"
           /\ m.content_type \notin SUPPORTED_IMAGE_TYPES)
    THEN "ValidationException"
    ELSE "none"

\* the except (KeyError, ValueError) clause of normalize
NormalizeWrap(e) ==
    IF ExceptionClasses(e) \cap {"KeyError", "ValueError"} # {}
    THEN "NormalizationError" ELSE e

\* the keywords TextNormalizer passes to Message(...); the other two
\* normalizers pass text as well
TextKwargs ==
    {"message_id", "channel_id", "tenant_id", "sender_id", "message_type",
     "content", "entities", "metadata", "timestamp"}

NoNormalize ==
    [raised |-> "none", returned |-> FALSE, message |-> NoMessage,
     sender_id |-> "", content_type_given |-> FALSE]

\* the end of normalize: Message(...) is built from the extracted values;
\* the timestamp is the str of the payload, or utcnow() when it has none
BuildMessage(keys, cfg, sender, mtype, content, ts) ==
    LET r == MessageInit(keys,
                 [tenant_id |-> cfg.tenant_id, channel_id |-> cfg.channel_id,
                  sender_id |-> sender, message_type |-> mtype,
                  content |-> content,
                  ts |-> IF ts = "str" THEN "str" ELSE "datetime"])
    IN  [raised |-> NormalizeWrap(r.raised), returned |-> r.raised = "none",
         message |-> r.message, sender_id |-> sender,
         content_type_given |-> "content_type" \in keys]

Raises(e) == [NoNormalize EXCEPT !.raised = e]

SenderMap(sid, s) ==
    [k \in AliasNames |-> IF k = "sender_id" THEN sid
                          ELSE IF k = "sender" THEN s ELSE Absent]

\* the checks shared by the validate methods: not None, a dict, 'id' present
ValidateShape(p) ==
    IF p.shape # "dict" THEN "ValidationError"
    ELSE IF p.id = Absent THEN "ValidationError"
    ELSE "none"

----------------------------------------------------------------------------
(* TextNormalizer *)

TextPayloads ==
    { p \in [shape : {"dict", "list", "none"}, id : {Absent, PyStr("m1")},
             hasText : BOOLEAN,
             text : {<<>>, <<"a">>, <<"a", " ", " ", "a", " ">>,
                     <<"a", "a", "a", "a", "a">>},
             sender : { SenderMap(a, b) :
                          a \in {Absent, PyStr("u1"), PyStr("")},
                          b \in {Absent, PyStr("u2")} },
             ts : {"none", "str"}] :
        /\ p.shape # "dict" =>
              (p.id = Absent /\ ~p.hasText /\ p.text = <<>>
               /\ p.sender = SenderMap(Absent, Absent) /\ p.ts = "none")
        /\ ~p.hasText => p.text = <<>> }

\* TextNormalizer.validate
TextValidate(p) ==
    IF ValidateShape(p) # "none" THEN ValidateShape(p)
    ELSE IF ~p.hasText THEN "ValidationError"
    ELSE "none"

\* TextNormalizer.normalize
TextNormalize(cfg, p) ==
    IF TextValidate(p) # "none" THEN Raises(NormalizeWrap(TextValidate(p)))
    ELSE IF extract_sender_id(p.sender).raised # "none"
    THEN Raises(NormalizeWrap(extract_sender_id(p.sender).raised))
    ELSE BuildMessage(TextKwargs, cfg, extract_sender_id(p.sender).value,
                      "text",
                      IF cfg.sanitize_input
                      THEN clean_text(p.text, cfg.max_length) ELSE p.text,
                      p.ts)

NoDenormalize ==
    [raised |-> "none", returned |-> FALSE,
     payload |-> [exists |-> FALSE, type |-> "", sender |-> "",
                  text |-> <<>>, ref |-> <<>>, itype |-> "", ids |-> <<>>]]

\* the except Exception clause of denormalize
DenormRaises(e) ==
    [NoDenormalize EXCEPT
        !.raised = IF e = "none" THEN "none" ELSE "NormalizationError"]

\* the type check at the head of every denormalize, then
\* message.timestamp.isoformat()
DenormalizeHead(m, declared) ==
    IF m.message_type # declared THEN "ValidationError"
    ELSE IF m.ts = "str" THEN "AttributeError"
    ELSE "none"

\* TextNormalizer.denormalize
TextDenormalize(cfg, m) ==
    IF DenormalizeHead(m, "text") # "none"
    THEN DenormRaises(DenormalizeHead(m, "text"))
    ELSE [raised |-> "none", returned |-> TRUE,
          payload |-> [exists |-> TRUE, type |-> "text",
                       sender |-> m.sender_id, text |-> m.content,
                       ref |-> <<>>, itype |-> "", ids |-> <<>>]]

----------------------------------------------------------------------------
(* ImageNormalizer *)

\* field is the payload key that carries the image reference
ImagePayloads ==
    { p \in [shape : {"dict", "list", "none"}, id : {Absent, PyStr("m2")},
             field : {"none", "image_url", "file_id"}, ref : Refs,
             sender : {SenderMap(Absent, Absent),
                       SenderMap(Absent, PyStr("u2"))},
             ts : {"none"}] :
        /\ p.shape # "dict" =>
              (p.id = Absent /\ p.field = "none"
               /\ p.sender = SenderMap(Absent, Absent))
        /\ p.field = "none" => p.ref = "" }

\* ImageNormalizer._extract_image_data: the keys of image_data, or KeyError
\* when nothing was found
extract_image_data(p) ==
    CASE p.field = "image_url" -> [raised |-> "none", keys |-> {"url"}]
      [] p.field = "file_id" -> [raised |-> "none", keys |-> {"file_id"}]
      [] OTHER -> [raised |-> "KeyError", keys |-> {}]

\* ImageNormalizer.validate
ImageValidate(cfg, p) ==
    IF ValidateShape(p) # "none" THEN ValidateShape(p)
    ELSE IF extract_image_data(p).raised = "KeyError" THEN "ValidationError"
    ELSE IF "url" \in extract_image_data(p).keys
    THEN handle_url(p.ref, cfg.allow_remote_urls, cfg.verify_mime_type).raised
    ELSE "none"

\* ImageNormalizer.normalize
ImageNormalize(cfg, p) ==
    IF ImageValidate(cfg, p) # "none"
    THEN Raises(NormalizeWrap(ImageValidate(cfg, p)))
    ELSE IF extract_sender_id(p.sender).raised # "none"
    THEN Raises(NormalizeWrap(extract_sender_id(p.sender).raised))
    ELSE BuildMessage(TextKwargs \cup {"text"}, cfg, extract_sender_id(p.sender).value,
                      "image", p.ref, p.ts)

\* ImageNormalizer.denormalize: message.text is read on every path that
\* passes the head, and Message has no text attribute
ImageDenormalize(cfg, m) ==
    IF DenormalizeHead(m, "image") # "none"
    THEN DenormRaises(DenormalizeHead(m, "image"))
    ELSE IF "text" \notin MessageInitParams THEN DenormRaises("AttributeError")
    ELSE [raised |-> "none", returned |-> TRUE,
          payload |-> [exists |-> TRUE, type |-> "image",
                       sender |-> m.sender_id, text |-> <<>>,
                       ref |-> m.content, itype |-> "", ids |-> <<>>]]

----------------------------------------------------------------------------
(* InteractiveNormalizer *)

\* max_elements of InteractiveNormalizer.__init__
DefaultMaxElements == 10

INTERACTIVE_TYPES ==
    {"button", "list", "menu", "quick_reply", "carousel", "card", "action",
     "selection"}

\* the dicts of a buttons list
Buttons == [id : {Absent, PyStr("b1"), PyStr("b2")},
            title : {Absent, PyStr("Yes")}]

InteractivePayloads ==
    { p \in [shape : {"dict", "list", "none"}, id : {Absent, PyStr("m3")},
             type : {Absent, PyStr("button"), PyStr("image")},
             nested : {Absent}, keys : {{}},
             hasButtons : BOOLEAN,
             buttons : UNION { [1..n -> Buttons] : n \in 0..MaxButtons },
             sender : {SenderMap(Absent, Absent),
                       SenderMap(Absent, PyStr("u3"))},
             ts : {"none"}] :
        /\ p.shape # "dict" =>
              (p.id = Absent /\ p.type = Absent /\ ~p.hasButtons
               /\ p.sender = SenderMap(Absent, Absent))
        /\ ~p.hasButtons => p.buttons = <<>> }

\* str.lower(), over the type names that occur
Lower(s) == IF s = "Button" THEN "button" ELSE s

\* InteractiveNormalizer._determine_interactive_type: type is the top-level
\* type field, nested the type of the interactive dict, hasButtons the
\* presence of the buttons key, keys the other type-indicating keys present
determine_interactive_type(p) ==
    IF p.type # Absent /\ Lower(Str(p.type)) \in INTERACTIVE_TYPES
    THEN Lower(Str(p.type))
    ELSE IF p.nested # Absent /\ Lower(Str(p.nested)) \in INTERACTIVE_TYPES
    THEN Lower(Str(p.nested))
    ELSE IF p.hasButtons THEN "button"
    ELSE IF p.keys \cap {"quick_replies", "replies"} # {} THEN "quick_reply"
    ELSE IF p.keys \cap {"items", "list"} # {} THEN "list"
    ELSE IF "carousel" \in p.keys THEN "carousel"
    ELSE IF "card" \in p.keys THEN "card"
    ELSE "unknown"

\* InteractiveNormalizer._extract_interactive_elements, button branch: id
\* and text of each element (id falls back to the payload, then to "";
\* text to "Button")
extract_interactive_elements(p) ==
    IF determine_interactive_type(p) # "button" \/ ~p.hasButtons THEN <<>>
    ELSE [i \in 1..Len(p.buttons) |->
            [id |-> IF p.buttons[i].id = Absent THEN ""
                    ELSE Str(p.buttons[i].id),
             text |-> IF p.buttons[i].title = Absent THEN "Button"
                      ELSE Str(p.buttons[i].title)]]

\* InteractiveNormalizer.validate
InteractiveValidate(cfg, p) ==
    IF ValidateShape(p) # "none" THEN ValidateShape(p)
    ELSE IF determine_interactive_type(p) = "unknown" THEN "ValidationError"
    ELSE IF cfg.validate_structure /\ extract_interactive_elements(p) = <<>>
    THEN "ValidationError"
    ELSE "none"

\* InteractiveNormalizer.extract_metadata and the two keys normalize sets
\* when there are elements
extract_metadata(p, elements) ==
    [interactive_type |-> determine_interactive_type(p),
     interactive_count |-> IF elements # <<>> THEN Len(elements) ELSE -1]

\* InteractiveNormalizer.normalize; content is the JSON text of the elements
InteractiveNormalize(cfg, p) ==
    IF InteractiveValidate(cfg, p) # "none"
    THEN Raises(NormalizeWrap(InteractiveValidate(cfg, p)))
    ELSE IF extract_sender_id(p.sender).raised # "none"
    THEN Raises(NormalizeWrap(extract_sender_id(p.sender).raised))
    ELSE LET b == BuildMessage(TextKwargs \cup {"text"}, cfg,
                               extract_sender_id(p.sender).value,
                               "interactive",
                               extract_interactive_elements(p), p.ts)
         IN  IF ~b.returned THEN b
             ELSE [b EXCEPT !.message.metadata =
                      extract_metadata(p, extract_interactive_elements(p))]

\* InteractiveNormalizer.build_interactive_elements, button type: the ids of
\* the buttons built
build_interactive_elements(elements, max_elements) ==
    [i \in 1..(IF Len(elements) < max_elements THEN Len(elements)
               ELSE max_elements) |-> elements[i].id]

\* InteractiveNormalizer.denormalize: message.text is read on every path
\* that passes the head, and Message has no text attribute; itype is the
\* type of the structure built from metadata["interactive_type"] ("" for {})
InteractiveDenormalize(cfg, m) ==
    IF DenormalizeHead(m, "interactive") # "none"
    THEN DenormRaises(DenormalizeHead(m, "interactive"))
    ELSE IF "text" \notin MessageInitParams THEN DenormRaises("AttributeError")
    ELSE [raised |-> "none", returned |-> TRUE,
          payload |-> [exists |-> TRUE, type |-> "interactive",
                       sender |-> m.sender_id, text |-> <<>>, ref |-> <<>>,
                       itype |-> IF m.content = <<>> THEN ""
                                 ELSE IF m.metadata.interactive_type
                                           \in INTERACTIVE_TYPES
                                 THEN m.metadata.interactive_type
                                 ELSE "button",
                       ids |-> build_interactive_elements(m.content,
                                                          cfg.max_elements)]]

----------------------------------------------------------------------------
(* WhatsAppChannel.normalize_message as a normalizer *)

WhatsAppPayloads ==
    [from : {Absent, PyStr("491700")}, body : {"text", "image", "empty"}]

\* WhatsAppChannel.normalize_message, with
\* sender_id = message_data.get("from", "")
WhatsAppNormalize(p) ==
    [NoNormalize EXCEPT
        !.raised = normalize_message(p.body),
        !.sender_id = IF p.from = Absent THEN "" ELSE Str(p.from)]

----------------------------------------------------------------------------
(* Normalizer calls *)

Normalize(kind, cfg, p) ==
    CASE kind = "text" -> TextNormalize(cfg, p)
      [] kind = "image" -> ImageNormalize(cfg, p)
      [] kind = "interactive" -> InteractiveNormalize(cfg, p)
      [] OTHER -> WhatsAppNormalize(p)

Denormalize(kind, cfg, m) ==
    CASE kind = "text" -> TextDenormalize(cfg, m)
      [] kind = "image" -> ImageDenormalize(cfg, m)
      [] OTHER -> InteractiveDenormalize(cfg, m)

\* the payloads and configurations of each kind of normalizer
KindInputs(op) ==
    [op : {op}, kind : {"text"},
     cfg : [channel_id : {"", "c1"}, tenant_id : {"", "t1"},
            max_length : {MaxLength}, sanitize_input : BOOLEAN],
     payload : TextPayloads]
    \cup [op : {op}, kind : {"image"},
          cfg : [channel_id : {"c1"}, tenant_id : {"", "t1"},
                 allow_remote_urls : BOOLEAN, verify_mime_type : BOOLEAN],
          payload : ImagePayloads]
    \cup [op : {op}, kind : {"interactive"},
          cfg : [channel_id : {"c1"}, tenant_id : {"t1"},
                 max_elements : {1, DefaultMaxElements},
                 validate_structure : BOOLEAN],
          payload : InteractivePayloads]

\* the calls made: normalize and the round trip on payloads, denormalize on
\* Message objects, and the helpers on their arguments
NormInputs ==
    KindInputs("normalize") \cup KindInputs("round_trip")
    \cup [op : {"normalize"}, kind : {"whatsapp"},
          cfg : {[channel_id |-> "c1", tenant_id |-> "t1"]},
          payload : WhatsAppPayloads]
    \cup [op : {"denormalize"}, kind : NormalizerKinds,
          cfg : {[channel_id |-> "c1", tenant_id |-> "t1",
                  max_elements |-> 1]},
          msg : [exists : {TRUE}, tenant_id : {"t1"}, channel_id : {"c1"},
                 sender_id : {"u1", "u2"},
                 message_type : {"text", "image", "interactive", "audio",
                                 "unknown"},
                 content_type : {"", "text/plain"}, content : {<<>>},
                 ts : {"datetime", "str"},
                 metadata : {NoMessage.metadata}]]
    \cup [op : {"extract_sender_id"}, kind : NormalizerKinds,
          sender : [AliasNames ->
                      {Absent, PyStr("u1"), PyStr("u2"), PyStr(""),
                       [t |-> "int", v |-> "7"]}]]
    \cup [op : {"determine_interactive_type"},
          type : {Absent, PyStr("Button"), PyStr("image")},
          nested : {Absent, PyStr("list"), PyStr("image")},
          hasButtons : BOOLEAN,
          keys : SUBSET {"items", "list", "quick_replies", "replies",
                         "carousel", "card"}]
    \cup [op : {"clean_text"}, text : Texts, max_length : 0..MaxLength]
    \cup [op : {"handle_url"}, ref : Refs, allow_remote_urls : BOOLEAN,
          verify_mime_type : BOOLEAN]

\* normalizer.normalize(payload)
NormalizeCall ==
    /\ n_pc = "pending" /\ n_in.op = "normalize"
    /\ n_out' = Normalize(n_in.kind, n_in.cfg, n_in.payload)
    /\ n_pc' = "done"
    /\ UNCHANGED n_in
    /\ UNCHANGED <<routerVars, webhookVars, adapterVars, factoryVars,
                 discoveryVars, newVars>>

\* normalizer.denormalize(message)
DenormalizeCall ==
    /\ n_pc = "pending" /\ n_in.op = "denormalize"
    /\ n_out' = Denormalize(n_in.kind, n_in.cfg, n_in.msg)
    /\ n_pc' = "done"
    /\ UNCHANGED n_in
    /\ UNCHANGED <<routerVars, webhookVars, adapterVars, factoryVars,
                 discoveryVars, newVars>>

\* normalizer.denormalize(normalizer.normalize(payload))
RoundTripCall ==
    /\ n_pc = "pending" /\ n_in.op = "round_trip"
    /\ LET n == Normalize(n_in.kind, n_in.cfg, n_in.payload)
       IN  n_out' = [normalize |-> n,
                     denormalize |->
                        IF n.returned
                        THEN Denormalize(n_in.kind, n_in.cfg, n.message)
                        ELSE NoDenormalize]
    /\ n_pc' = "done"
    /\ UNCHANGED n_in
    /\ UNCHANGED <<routerVars, webhookVars, adapterVars, factoryVars,
                 discoveryVars, newVars>>

\* normalizer._extract_sender_id(payload)
ExtractSenderCall ==
    /\ n_pc = "pending" /\ n_in.op = "extract_sender_id"
    /\ n_out' = extract_sender_id(n_in.sender)
    /\ n_pc' = "done"
    /\ UNCHANGED n_in
    /\ UNCHANGED <<routerVars, webhookVars, adapterVars, factoryVars,
                 discoveryVars, newVars>>

\* InteractiveNormalizer()._determine_interactive_type(payload)
DetermineTypeCall ==
    /\ n_pc = "pending" /\ n_in.op = "determine_interactive_type"
    /\ n_out' = [raised |-> "none", value |-> determine_interactive_type(n_in)]
    /\ n_pc' = "done"
    /\ UNCHANGED n_in
    /\ UNCHANGED <<routerVars, webhookVars, adapterVars, factoryVars,
                 discoveryVars, newVars>>

\* TextNormalizer(max_length=...).clean_text(text)
CleanTextCall ==
    /\ n_pc = "pending" /\ n_in.op = "clean_text"
    /\ n_out' = [raised |-> "none",
                 text |-> clean_text(n_in.text, n_in.max_length)]
    /\ n_pc' = "done"
    /\ UNCHANGED n_in
    /\ UNCHANGED <<routerVars, webhookVars, adapterVars, factoryVars,
                 discoveryVars, newVars>>

\* ImageNormalizer(...).handle_url(ref)
HandleUrlCall ==
    /\ n_pc = "pending" /\ n_in.op = "handle_url"
    /\ n_out' = handle_url(n_in.ref, n_in.allow_remote_urls,
                           n_in.verify_mime_type)
    /\ n_pc' = "done"
    /\ UNCHANGED n_in
    /\ UNCHANGED <<routerVars, webhookVars, adapterVars, factoryVars,
                 discoveryVars, newVars>>

NormNext ==
    \/ NormalizeCall \/ DenormalizeCall \/ RoundTripCall
    \/ ExtractSenderCall \/ CleanTextCall \/ HandleUrlCall
    \/ DetermineTypeCall

----------------------------------------------------------------------------
(* TextFormatter (app/formatters/text.py) *)

\* the texts given to the formatter; "#" stands for the backtick
FmtTexts == UNION { [1..n -> {"a", "*", "_", "#"}] : n \in 0..MaxFmtText }

\* self.CHANNEL_LIMITS.get(channel_id, self.CHANNEL_LIMITS["default"]), the
\* lengths scaled down (4096, 2000, 4096, 10000 and the default 4000 in the
\* source), keeping their order
CHANNEL_LIMITS(channel_id) ==
    CASE channel_id \in {"whatsapp", "telegram"} -> 5
      [] channel_id = "facebook" -> 3
      [] channel_id = "webchat" -> 6
      [] OTHER -> 4

\* self.CHANNEL_FORMATTING.get(channel_id, {...}): what the channel supports
CHANNEL_FORMATTING(channel_id) ==
    CASE channel_id = "whatsapp" ->
           [supports_bold |-> TRUE, supports_italic |-> TRUE,
            supports_code |-> FALSE]
      [] channel_id \in {"telegram", "webchat"} ->
           [supports_bold |-> TRUE, supports_italic |-> TRUE,
            supports_code |-> TRUE]
      [] OTHER ->
           [supports_bold |-> FALSE, supports_italic |-> FALSE,
            supports_code |-> FALSE]

\* str.find(sub, start) with 0-based positions, -1 when there is none
Find(s, sub, start) ==
    LET at == { i \in start..(Len(s) - Len(sub)) :
                  SubSeq(s, i + 1, i + Len(sub)) = sub }
    IN  IF at = {} THEN -1 ELSE CHOOSE i \in at : \A j \in at : i <= j

\* a mutant of StripIter: removes the opening marker and keeps the closing
StripIterKeepClose(result, start_idx, m) ==
    LET start_pos == Find(result, m, start_idx)
        end_pos == IF start_pos = -1 THEN -1
                   ELSE Find(result, m, start_pos + Len(m))
    IN  IF start_pos = -1 \/ end_pos = -1
        THEN [brk |-> TRUE, result |-> result, start_idx |-> start_idx]
        ELSE [brk |-> FALSE,
              result |-> SubSeq(result, 1, start_pos)
                         \o SubSeq(result, start_pos + Len(m) + 1, Len(result)),
              start_idx |-> start_pos]

\* one pass of the while loop of strip_unsupported: brk when it breaks
StripIter(result, start_idx, m) ==
    LET start_pos == Find(result, m, start_idx)
        end_pos == IF start_pos = -1 THEN -1
                   ELSE Find(result, m, start_pos + Len(m))
    IN  IF start_pos = -1 \/ end_pos = -1
        THEN [brk |-> TRUE, result |-> result, start_idx |-> start_idx]
        ELSE [brk |-> FALSE,
              result |-> SubSeq(result, 1, start_pos)
                         \o SubSeq(result, start_pos + Len(m) + 1, end_pos)
                         \o SubSeq(result, end_pos + Len(m) + 1, Len(result)),
              start_idx |-> start_pos]

RECURSIVE strip_unsupported(_, _, _)
\* TextFormatter.strip_unsupported(text, m, m): the while loop run from
\* result = text and start_idx = 0 to its break
strip_unsupported(result, start_idx, m) ==
    LET it == StripIter(result, start_idx, m)
    IN  IF it.brk THEN it.result
        ELSE strip_unsupported(it.result, it.start_idx, m)

\* TextFormatter.add_formatting; every channel supports links
add_formatting(text, channel_id) ==
    LET f == CHANNEL_FORMATTING(channel_id)
        t1 == IF ~f.supports_bold
              THEN strip_unsupported(text, 0, <<"*", "*">>) ELSE text
        t2 == IF ~f.supports_italic
              THEN strip_unsupported(t1, 0, <<"_">>) ELSE t1
    IN  IF ~f.supports_code THEN strip_unsupported(t2, 0, <<"#">>) ELSE t2

\* TextFormatter.truncate_text
truncate_text(text, channel_id) ==
    IF Len(text) <= CHANNEL_LIMITS(channel_id) THEN text
    ELSE SliceTo(text, CHANNEL_LIMITS(channel_id) - 3) \o <<".", ".", ".">>

\* TextFormatter.format: what the Message argument holds afterwards and what
\* the call returns or raises; process_metadata reads message.id
format(content, channel_id) ==
    LET kept == IF Len(content) <= CHANNEL_LIMITS(channel_id) THEN content
                ELSE truncate_text(content, channel_id)
    IN  [content |-> kept,
         raised |-> IF "id" \in MessageInitParams THEN "none"
                    ELSE "AttributeError",
         value |-> IF "id" \in MessageInitParams
                   THEN add_formatting(kept, channel_id) ELSE << >>]

\* formatter.format(message, channel_id)
FormatCall ==
    /\ t_pc = "idle"
    /\ \E content \in FmtTexts,
          channel_id \in {"whatsapp", "facebook", "telegram", "webchat",
                          "other"} :
         /\ t_in' = [op |-> "format", text |-> content, arg |-> channel_id]
         /\ t_msg' = format(content, channel_id).content
         /\ t_out' = [raised |-> format(content, channel_id).raised,
                      value |-> format(content, channel_id).value]
    /\ t_pc' = "done"
    /\ UNCHANGED <<t_result, t_idx>>
    /\ UNCHANGED <<coreVars, regVars, cbVars, cmVars, mcVars>>

\* strip_unsupported up to its loop: result = text, start_idx = 0
StripStart ==
    /\ t_pc = "idle"
    /\ \E text \in FmtTexts, m \in { <<"*", "*">>, <<"_">>, <<"#">> } :
         /\ t_in' = [op |-> "strip_unsupported", text |-> text, arg |-> m]
         /\ t_msg' = text
         /\ t_result' = text
    /\ t_idx' = 0
    /\ t_pc' = "loop"
    /\ UNCHANGED t_out
    /\ UNCHANGED <<coreVars, regVars, cbVars, cmVars, mcVars>>

\* one pass of the loop, or the break and the return of result
StripStep ==
    /\ t_pc = "loop"
    /\ LET it == StripIter(t_result, t_idx, t_in.arg)
       IN  /\ t_result' = it.result
           /\ t_idx' = it.start_idx
           /\ IF it.brk
              THEN t_pc' = "done"
                   /\ t_out' = [raised |-> "none", value |-> it.result]
              ELSE UNCHANGED <<t_pc, t_out>>
    /\ UNCHANGED <<t_in, t_msg>>
    /\ UNCHANGED <<coreVars, regVars, cbVars, cmVars, mcVars>>

\* the caller drops the call's objects
FormatterReturn ==
    /\ t_pc = "done"
    /\ t_pc' = "idle"
    /\ t_in' = [op |-> "none"]
    /\ t_msg' = << >>
    /\ t_out' = [raised |-> "none", value |-> << >>]
    /\ t_result' = << >>
    /\ t_idx' = 0
    /\ UNCHANGED <<coreVars, regVars, cbVars, cmVars, mcVars>>

FormatterNext ==
    FormatCall \/ StripStart \/ StripStep \/ FormatterReturn

----------------------------------------------------------------------------
(* RedisCacheClient circuit breaker
   (adaptor-service/app/infrastructure/cache/redis_cache.py) *)

\* RedisCacheClient._create_circuit_breaker; last_failure_time -1 is None
create_circuit_breaker(enabled) ==
    [state |-> "closed", failure_count |-> 0, last_failure_time |-> -1,
     enabled |-> enabled]

\* a mutant of update_circuit_breaker: a success leaves failure_count alone
update_circuit_breaker_keep_count(b, success, now) ==
    IF ~b.enabled THEN b
    ELSE IF success
    THEN [b EXCEPT !.state = IF @ \in {"half_open", "open"} THEN "closed"
                              ELSE @]
    ELSE CASE b.state = "closed" ->
                IF b.failure_count + 1 >= failure_threshold
                THEN [b EXCEPT !.failure_count = @ + 1, !.state = "open",
                               !.last_failure_time = now]
                ELSE [b EXCEPT !.failure_count = @ + 1]
           [] b.state = "open" -> [b EXCEPT !.last_failure_time = now]
           [] OTHER -> [b EXCEPT !.state = "open", !.last_failure_time = now]

\* RedisCacheClient._update_circuit_breaker
update_circuit_breaker(b, success, now) ==
    IF ~b.enabled THEN b
    ELSE IF success
    THEN [b EXCEPT !.state = IF @ \in {"half_open", "open"} THEN "closed"
                              ELSE @,
                   !.failure_count = 0]
    ELSE CASE b.state = "closed" ->
                IF b.failure_count + 1 >= failure_threshold
                THEN [b EXCEPT !.failure_count = @ + 1, !.state = "open",
                               !.last_failure_time = now]
                ELSE [b EXCEPT !.failure_count = @ + 1]
           [] b.state = "open" -> [b EXCEPT !.last_failure_time = now]
           [] OTHER -> [b EXCEPT !.state = "open", !.last_failure_time = now]

\* a mutant of check_circuit_breaker: the probe is let through as soon as
\* reset_timeout seconds have passed
check_circuit_breaker_at_timeout(b, now) ==
    IF ~b.enabled \/ b.state = "closed" THEN [allowed |-> TRUE, breaker |-> b]
    ELSE IF b.state = "open"
    THEN IF now - b.last_failure_time >= reset_timeout
         THEN [allowed |-> TRUE, breaker |-> [b EXCEPT !.state = "half_open"]]
         ELSE [allowed |-> FALSE, breaker |-> b]
    ELSE [allowed |-> TRUE, breaker |-> b]

\* RedisCacheClient._check_circuit_breaker: whether the command may run, and
\* the breaker as the check leaves it
check_circuit_breaker(b, now) ==
    IF ~b.enabled \/ b.state = "closed" THEN [allowed |-> TRUE, breaker |-> b]
    ELSE IF b.state = "open"
    THEN IF now - b.last_failure_time > reset_timeout
         THEN [allowed |-> TRUE, breaker |-> [b EXCEPT !.state = "half_open"]]
         ELSE [allowed |-> FALSE, breaker |-> b]
    ELSE [allowed |-> TRUE, breaker |-> b]

\* RedisCacheClient.__init__: a client with a fresh breaker
CreateClient ==
    /\ \E enabled \in BOOLEAN : cb_breaker' = create_circuit_breaker(enabled)
    /\ cb_call' = [invoked |-> FALSE, probe |-> FALSE, outcome |-> "none",
                   raised |-> "none"]
    /\ cb_streak' = 0
    /\ UNCHANGED cb_now
    /\ UNCHANGED <<coreVars, fmtVars, regVars, cmVars, mcVars>>

\* RedisCacheClient._execute_redis_command; the command returns, raises
\* RedisError or raises another exception
ExecuteRedisCommand ==
    /\ \E o \in {"ok", "RedisError", "TypeError"} :
        LET chk == check_circuit_breaker(cb_breaker, cb_now)
        IN  IF ~chk.allowed
            THEN /\ cb_breaker' = chk.breaker
                 /\ cb_call' = [invoked |-> FALSE, probe |-> FALSE,
                                outcome |-> "none", raised |-> "CacheError"]
                 /\ UNCHANGED cb_streak
            ELSE /\ cb_breaker' =
                      IF o = "TypeError" THEN chk.breaker
                      ELSE update_circuit_breaker(chk.breaker, o = "ok",
                                                  cb_now)
                 /\ cb_call' = [invoked |-> TRUE,
                                probe |-> chk.breaker.state = "half_open",
                                outcome |-> o,
                                raised |-> IF o = "ok" THEN "none"
                                           ELSE IF o = "RedisError"
                                           THEN "CacheError" ELSE o]
                 /\ cb_streak' = IF o = "ok" THEN 0
                                 ELSE IF o = "RedisError"
                                 THEN (IF cb_streak <= failure_threshold
                                       THEN cb_streak + 1 ELSE cb_streak)
                                 ELSE cb_streak
    /\ UNCHANGED cb_now
    /\ UNCHANGED <<coreVars, fmtVars, regVars, cmVars, mcVars>>

\* time.time() advances by a second
Tick ==
    /\ cb_now < MaxTime
    /\ cb_now' = cb_now + 1
    /\ UNCHANGED <<cb_breaker, cb_call, cb_streak>>
    /\ UNCHANGED <<coreVars, fmtVars, regVars, cmVars, mcVars>>

BreakerNext == CreateClient \/ ExecuteRedisCommand \/ Tick

----------------------------------------------------------------------------
(* ConnectionManager: app/api/websocket/connection_manager.py *)

\* the (tenant_id, user_id, client_id) arguments of the calls
ConnKeys ==
    [tenant_id : {"t1"}, user_id : {"u1", "u2"}, client_id : {"c1", "c2"}]

\* {}
EmptyDict == [x \in {} |-> {}]

\* no connect call is in progress
NoConnect ==
    [pc |-> "idle", key |-> [tenant_id |-> "", user_id |-> "",
                             client_id |-> ""],
     own_removed |-> FALSE, returned |-> "", raised |-> "none"]

\* d without the key x
DictDel(d, x) == [y \in DOMAIN d \ {x} |-> d[y]]

\* d with d[x] = v
DictSet(d, x, v) == [y \in DOMAIN d \cup {x} |-> IF y = x THEN v ELSE d[y]]

\* the membership test of disconnect, send_message and get_connection_info
has_connection(conns, k) ==
    /\ k.tenant_id \in DOMAIN conns
    /\ k.user_id \in DOMAIN conns[k.tenant_id]
    /\ k.client_id \in DOMAIN conns[k.tenant_id][k.user_id]

\* ConnectionManager.disconnect: active_connections after the call
disconnect(conns, k) ==
    IF ~has_connection(conns, k) THEN conns
    ELSE LET t == k.tenant_id
             u == k.user_id
             clients == DictDel(conns[t][u], k.client_id)
             users == IF DOMAIN clients = {} THEN DictDel(conns[t], u)
                      ELSE DictSet(conns[t], u, clients)
         IN  IF DOMAIN users = {} THEN DictDel(conns, t)
             ELSE DictSet(conns, t, users)

\* ConnectionManager.send_message (ws_ tells it from the channel's): active_connections after the call, when
\* send_json returns ("ok"), raises WebSocketDisconnect or raises another
\* exception
ws_send_message(conns, k, o) ==
    IF ~has_connection(conns, k) THEN conns
    ELSE IF o = "ok"
    THEN [conns EXCEPT ![k.tenant_id][k.user_id][k.client_id] =
              [last_activity |-> "recent"]]
    ELSE IF o = "WebSocketDisconnect" THEN disconnect(conns, k)
    ELSE conns

RECURSIVE broadcast_to_user(_, _, _, _, _)
\* ConnectionManager.broadcast_to_user: send_message to each client of the
\* list taken at the start
broadcast_to_user(conns, t, u, clients, outs) ==
    IF clients = {} THEN conns
    ELSE LET c == CHOOSE x \in clients : TRUE
         IN  broadcast_to_user(
                 ws_send_message(conns, [tenant_id |-> t, user_id |-> u,
                                      client_id |-> c], outs[c]),
                 t, u, clients \ {c}, outs)

\* _cleanup_task: the connections without activity for more than 5 minutes
stale_connections(conns) ==
    {k \in ConnKeys : /\ has_connection(conns, k)
                      /\ conns[k.tenant_id][k.user_id][k.client_id]
                             .last_activity = "old"}

RECURSIVE disconnect_all(_, _)
\* _cleanup_task: disconnect of each stale connection
disconnect_all(conns, ks) ==
    IF ks = {} THEN conns
    ELSE LET k == CHOOSE x \in ks : TRUE
         IN  disconnect_all(disconnect(conns, k), ks \ {k})

\* the connect call, with a note of whether a step that leaves conns2 took
\* away an earlier connection of the very client that is connecting
NoteOwn(conns2) ==
    [cm_call EXCEPT !.own_removed =
         @ \/ ( /\ cm_call.pc = "accepting"
                /\ has_connection(cm_conns, cm_call.key)
                /\ ~has_connection(conns2, cm_call.key) )]

\* ConnectionManager.connect up to "await websocket.accept()": the tenant
\* dict and the user dict are created when missing
ConnectBegin ==
    /\ cm_call.pc = "idle"
    /\ \E k \in ConnKeys :
        LET t == k.tenant_id
            u == k.user_id
            withTenant == IF t \in DOMAIN cm_conns THEN cm_conns
                          ELSE DictSet(cm_conns, t, EmptyDict)
            withUser == IF u \in DOMAIN withTenant[t] THEN withTenant
                        ELSE DictSet(withTenant, t,
                                     DictSet(withTenant[t], u, EmptyDict))
        IN  /\ cm_conns' = withUser
            /\ cm_call' = [pc |-> "accepting", key |-> k,
                           own_removed |-> FALSE, returned |-> "",
                           raised |-> "none"]
    /\ UNCHANGED <<coreVars, fmtVars, regVars, cbVars, mcVars>>

\* ConnectionManager.connect after the await: accept returned and the
\* connection is stored with a subscript assignment, which raises KeyError
\* when the tenant dict or the user dict is not there; or accept raised
ConnectResume ==
    /\ cm_call.pc = "accepting"
    /\ \E accepted \in BOOLEAN :
        LET k == cm_call.key
            t == k.tenant_id
            u == k.user_id
        IN  IF ~accepted
            THEN /\ cm_call' = [cm_call EXCEPT !.pc = "done",
                                               !.raised = "RuntimeError"]
                 /\ UNCHANGED cm_conns
            ELSE IF t \in DOMAIN cm_conns /\ u \in DOMAIN cm_conns[t]
            THEN /\ cm_conns' =
                      DictSet(cm_conns, t,
                          DictSet(cm_conns[t], u,
                              DictSet(cm_conns[t][u], k.client_id,
                                      [last_activity |-> "recent"])))
                 /\ cm_call' = [cm_call EXCEPT !.pc = "done",
                                               !.returned = k.client_id]
            ELSE /\ cm_call' = [cm_call EXCEPT !.pc = "done",
                                               !.raised = "KeyError"]
                 /\ UNCHANGED cm_conns
    /\ UNCHANGED <<coreVars, fmtVars, regVars, cbVars, mcVars>>

\* the caller of connect has its result
ConnectReturn ==
    /\ cm_call.pc = "done"
    /\ cm_call' = NoConnect
    /\ UNCHANGED cm_conns
    /\ UNCHANGED <<coreVars, fmtVars, regVars, cbVars, mcVars>>

\* disconnect(tenant_id, user_id, client_id) of a connection
Disconnect ==
    /\ \E k \in ConnKeys :
        /\ has_connection(cm_conns, k)
        /\ cm_conns' = disconnect(cm_conns, k)
    /\ cm_call' = NoteOwn(cm_conns')
    /\ UNCHANGED <<coreVars, fmtVars, regVars, cbVars, mcVars>>

\* broadcast_to_user(tenant_id, user_id, message); send_message to one
\* client is the case of a user with one connection
BroadcastToUser ==
    /\ \E k \in ConnKeys :
        \E outs \in [{x.client_id : x \in ConnKeys} ->
                        {"ok", "WebSocketDisconnect", "RuntimeError"}] :
            /\ k.tenant_id \in DOMAIN cm_conns
            /\ k.user_id \in DOMAIN cm_conns[k.tenant_id]
            /\ DOMAIN cm_conns[k.tenant_id][k.user_id] # {}
            /\ cm_conns' =
                   broadcast_to_user(cm_conns, k.tenant_id, k.user_id,
                       DOMAIN cm_conns[k.tenant_id][k.user_id], outs)
    /\ cm_call' = NoteOwn(cm_conns')
    /\ UNCHANGED <<coreVars, fmtVars, regVars, cbVars, mcVars>>

\* five minutes pass without activity on a connection
Inactive ==
    /\ \E k \in ConnKeys :
        /\ has_connection(cm_conns, k)
        /\ cm_conns[k.tenant_id][k.user_id][k.client_id].last_activity
               = "recent"
        /\ cm_conns' =
               [cm_conns EXCEPT ![k.tenant_id][k.user_id][k.client_id] =
                    [last_activity |-> "old"]]
    /\ UNCHANGED cm_call
    /\ UNCHANGED <<coreVars, fmtVars, regVars, cbVars, mcVars>>

\* one round of _cleanup_task
CleanupTask ==
    /\ stale_connections(cm_conns) # {}
    /\ cm_conns' = disconnect_all(cm_conns, stale_connections(cm_conns))
    /\ cm_call' = NoteOwn(cm_conns')
    /\ UNCHANGED <<coreVars, fmtVars, regVars, cbVars, mcVars>>

ConnectionNext ==
    \/ ConnectBegin \/ ConnectResume \/ ConnectReturn \/ Disconnect
    \/ BroadcastToUser \/ Inactive \/ CleanupTask

----------------------------------------------------------------------------
(* MemoryCache: app/infrastructure/cache/memory_cache.py (adaptor-service) *)

\* longest key, longest tenant id, most items in the cache
MaxKeyLen == 2
MaxTenantLen == 2
MaxItems == 1

\* the characters of keys and tenant ids
CacheChars == {"a", ":"}

\* strings of lo..hi characters
CacheStrings(lo, hi) ==
    UNION {[1..n -> CacheChars] : n \in lo..hi}

\* the key arguments
CacheKeys == CacheStrings(1, MaxKeyLen)

\* tenant_id = None; the empty string is treated alike ("if tenant_id:")
NoTenant == << >>

\* the tenant_id arguments
CacheTenants == CacheStrings(0, MaxTenantLen)

\* None, in the place of a cached value
NoValue == [tenant_id |-> << >>, key |-> << >>]

\* a call, what it returned (hit: not None, or True) and, for flush, the
\* count it returned
CacheCall(op, t, k, hit, value, count) ==
    [op |-> op, tenant_id |-> t, key |-> k, hit |-> hit, value |-> value,
     count |-> count]

\* no call was made
NoCacheCall == CacheCall("none", NoTenant, << >>, FALSE, NoValue, 0)

\* MemoryCache._build_key
build_key(key, tenant_id) ==
    IF tenant_id # << >> THEN tenant_id \o <<":">> \o key ELSE key

\* str.startswith
startswith(k, prefix) ==
    /\ Len(k) >= Len(prefix)
    /\ SubSeq(k, 1, Len(prefix)) = prefix

\* the look-up of get and exists: the item found when it has not expired,
\* and the cache without it when it has
cache_lookup(cache, full_key) ==
    IF full_key \notin DOMAIN cache
    THEN [found |-> FALSE, value |-> NoValue, cache |-> cache]
    ELSE IF cache[full_key].expired
    THEN [found |-> FALSE, value |-> NoValue,
          cache |-> DictDel(cache, full_key)]
    ELSE [found |-> TRUE, value |-> cache[full_key].value, cache |-> cache]

\* MemoryCache.get: the value returned is a copy of what was set
CacheGet ==
    /\ \E t \in CacheTenants, k \in CacheKeys :
        LET r == cache_lookup(mc_cache, build_key(k, t))
        IN  /\ mc_cache' = r.cache
            /\ mc_call' = CacheCall("get", t, k, r.found, r.value, 0)
    /\ UNCHANGED <<coreVars, fmtVars, regVars, cbVars, cmVars>>

\* MemoryCache.exists
CacheExists ==
    /\ \E t \in CacheTenants, k \in CacheKeys :
        LET r == cache_lookup(mc_cache, build_key(k, t))
        IN  /\ mc_cache' = r.cache
            /\ mc_call' = CacheCall("exists", t, k, r.found, NoValue, 0)
    /\ UNCHANGED <<coreVars, fmtVars, regVars, cbVars, cmVars>>

\* MemoryCache.set; the value set is named after the caller, so that a read
\* shows whose it is
CacheSet ==
    /\ \E t \in CacheTenants, k \in CacheKeys :
        /\ \/ build_key(k, t) \in DOMAIN mc_cache
           \/ Cardinality(DOMAIN mc_cache) < MaxItems
        /\ mc_cache' =
               DictSet(mc_cache, build_key(k, t),
                       [value |-> [tenant_id |-> t, key |-> k],
                        expired |-> FALSE])
        /\ mc_call' = CacheCall("set", t, k, TRUE, NoValue, 0)
    /\ UNCHANGED <<coreVars, fmtVars, regVars, cbVars, cmVars>>

\* MemoryCache.delete
CacheDelete ==
    /\ \E t \in CacheTenants, k \in CacheKeys :
        LET full_key == build_key(k, t)
        IN  /\ mc_cache' = IF full_key \in DOMAIN mc_cache
                           THEN DictDel(mc_cache, full_key) ELSE mc_cache
            /\ mc_call' = CacheCall("delete", t, k,
                                    full_key \in DOMAIN mc_cache, NoValue,
                                    0)
    /\ UNCHANGED <<coreVars, fmtVars, regVars, cbVars, cmVars>>

\* MemoryCache.flush
CacheFlush ==
    /\ \E t \in CacheTenants :
        LET keys_to_delete ==
                IF t # << >>
                THEN {k \in DOMAIN mc_cache : startswith(k, t \o <<":">>)}
                ELSE DOMAIN mc_cache
        IN  /\ mc_cache' = [k \in DOMAIN mc_cache \ keys_to_delete |->
                               mc_cache[k]]
            /\ mc_call' = CacheCall("flush", t, << >>, FALSE, NoValue,
                                    Cardinality(keys_to_delete))
    /\ UNCHANGED <<coreVars, fmtVars, regVars, cbVars, cmVars>>

\* the ttl of an item runs out
CacheExpire ==
    /\ \E k \in DOMAIN mc_cache :
        /\ ~mc_cache[k].expired
        /\ mc_cache' = [mc_cache EXCEPT ![k].expired = TRUE]
    /\ UNCHANGED mc_call
    /\ UNCHANGED <<coreVars, fmtVars, regVars, cbVars, cmVars>>

\* MemoryCache._cleanup_expired, run by the cleanup thread
CleanupExpired ==
    /\ \E k \in DOMAIN mc_cache : mc_cache[k].expired
    /\ mc_cache' = [k \in {x \in DOMAIN mc_cache : ~mc_cache[x].expired} |->
                       mc_cache[k]]
    /\ UNCHANGED mc_call
    /\ UNCHANGED <<coreVars, fmtVars, regVars, cbVars, cmVars>>

CacheNext ==
    \/ CacheGet \/ CacheExists \/ CacheSet \/ CacheDelete \/ CacheFlush
    \/ CacheExpire \/ CleanupExpired

----------------------------------------------------------------------------
(* Specifications *)

\* nothing is in flight; the registry is as app.channels leaves it on import
Init ==
    /\ r_pc = "idle"
    /\ r_msg = NoneMessage
    /\ r_plan = [i \in 1..PlanLen |-> "ok"]
    /\ r_posts = <<>>
    /\ r_result = NoResult
    /\ r_raised = "none"
    /\ r_cancelled = FALSE
    /\ w_pc = "idle"
    /\ w_req = NoRequest
    /\ w_verify = "not_run"
    /\ w_process = 0
    /\ w_pending = 0
    /\ w_handled = 0
    /\ w_exc = "none"
    /\ w_status = 0
    /\ w_body = "none"
    /\ f_registry = InitialRegistry
    /\ f_log = << <<"whatsapp", "WhatsAppChannel">> >>
    /\ f_op = "import"
    /\ f_arg = <<"whatsapp", "WhatsAppChannel">>
    /\ f_before = InitialRegistry
    /\ f_raised = "none"
    /\ a_cfg = [form |-> "dict", present |-> {}, phone |-> <<>>,
                secret |-> "none"]
    /\ a_path = "none"
    /\ a_adapter = NoAdapter
    /\ a_raised = "none"
    /\ a_recv = NoReceive
    /\ a_send = NoSend
    /\ d_pkg = <<>>
    /\ d_ran = FALSE
    /\ d_raised = "none"
    /\ n_pc = "pending"
    /\ n_in = [op |-> "none"]
    /\ n_out = [raised |-> "none"]
    /\ t_pc = "idle"
    /\ t_in = [op |-> "none"]
    /\ t_msg = << >>
    /\ t_out = [raised |-> "none", value |-> << >>]
    /\ t_result = << >>
    /\ t_idx = 0
    /\ g_calls = [p \in Threads |->
                   [pc |-> "idle", t |-> "", c |-> "dict", dup |-> FALSE,
                    raised |-> "none"]]
    /\ cb_breaker = create_circuit_breaker(TRUE)
    /\ cb_now = 0
    /\ cb_call = [invoked |-> FALSE, probe |-> FALSE, outcome |-> "none",
                  raised |-> "none"]
    /\ cb_streak = 0
    /\ cm_conns = EmptyDict
    /\ cm_call = NoConnect
    /\ mc_cache = EmptyDict
    /\ mc_call = NoCacheCall

\* a normalizer call about to be made, everything else as constructed
NormInit ==
    /\ r_pc = "idle"
    /\ r_msg = NoneMessage
    /\ r_plan = [i \in 1..PlanLen |-> "ok"]
    /\ r_posts = <<>>
    /\ r_result = NoResult
    /\ r_raised = "none"
    /\ r_cancelled = FALSE
    /\ w_pc = "idle"
    /\ w_req = NoRequest
    /\ w_verify = "not_run"
    /\ w_process = 0
    /\ w_pending = 0
    /\ w_handled = 0
    /\ w_exc = "none"
    /\ w_status = 0
    /\ w_body = "none"
    /\ f_registry = InitialRegistry
    /\ f_log = << <<"whatsapp", "WhatsAppChannel">> >>
    /\ f_op = "import"
    /\ f_arg = <<"whatsapp", "WhatsAppChannel">>
    /\ f_before = InitialRegistry
    /\ f_raised = "none"
    /\ a_cfg = [form |-> "dict", present |-> {}, phone |-> <<>>,
                secret |-> "none"]
    /\ a_path = "none"
    /\ a_adapter = NoAdapter
    /\ a_raised = "none"
    /\ a_recv = NoReceive
    /\ a_send = NoSend
    /\ d_pkg = <<>>
    /\ d_ran = FALSE
    /\ d_raised = "none"
    /\ n_pc = "pending"
    /\ n_in \in NormInputs
    /\ n_out = [raised |-> "none"]
    /\ t_pc = "idle"
    /\ t_in = [op |-> "none"]
    /\ t_msg = << >>
    /\ t_out = [raised |-> "none", value |-> << >>]
    /\ t_result = << >>
    /\ t_idx = 0
    /\ g_calls = [p \in Threads |->
                   [pc |-> "idle", t |-> "", c |-> "dict", dup |-> FALSE,
                    raised |-> "none"]]
    /\ cb_breaker = create_circuit_breaker(TRUE)
    /\ cb_now = 0
    /\ cb_call = [invoked |-> FALSE, probe |-> FALSE, outcome |-> "none",
                  raised |-> "none"]
    /\ cb_streak = 0
    /\ cm_conns = EmptyDict
    /\ cm_call = NoConnect
    /\ mc_cache = EmptyDict
    /\ mc_call = NoCacheCall

Next ==
    \/ RouterNext \/ WebhookNext \/ AdapterNext \/ FactoryNext
    \/ DiscoveryNext \/ NormNext \/ FormatterNext \/ RegistrationNext
    \/ BreakerNext \/ ConnectionNext \/ CacheNext

Spec == Init /\ [][Next]_vars

\* ChatRouter.route calls
SpecRouter == Init /\ [][RouterNext]_vars

\* handle_webhook requests
SpecWebhook == Init /\ [][WebhookNext]_vars

\* WhatsAppChannel construction and receive_message
SpecAdapter == Init /\ [][AdapterNext]_vars

\* ChannelFactory operations
SpecFactory == Init /\ [][FactoryNext]_vars

\* ChannelFactory.initialize
SpecDiscovery == Init /\ [][DiscoveryNext]_vars

\* calls of the normalizers
SpecNormalizer == NormInit /\ [][NormNext]_vars

\* commands of a RedisCacheClient, and time passing
SpecBreaker == Init /\ [][BreakerNext]_vars

\* ConnectionManager calls; one connect at a time is followed through its
\* await
SpecConnections == Init /\ [][ConnectionNext]_vars

\* MemoryCache calls of several tenants, and items expiring
SpecCache == Init /\ [][CacheNext]_vars

\* register_channel called from several threads
SpecRegistration == Init /\ [][RegistrationNext]_vars

\* calls of the TextFormatter; the strip_unsupported loop keeps running
SpecFormatter == Init /\ [][FormatterNext]_vars /\ WF_vars(StripStep)

----------------------------------------------------------------------------
(* Properties of ChatRouter.route *)

\* a message that validate_message is meant to reject: null, no id, or
\* neither content nor attachments
FailsValidation(m) ==
    \/ m.null
    \/ ~m.hasId
    \/ m.id = ""
    \/ (m.content = "" /\ ~(m.hasAtt /\ m.att))

\* a message with every attribute route reads and with id and content
Routable(m) ==
    ~m.null /\ m.hasId /\ m.id # "" /\ m.hasAtt /\ m.content # ""

\* the downstream engine accepted a POST of the current call
Delivered ==
    r_posts # <<>> /\ r_posts[Len(r_posts)] \in {"ok", "ok_error"}

IsErrorEnvelope(res, m) ==
    /\ res.kind = "envelope"
    /\ res.success = FALSE
    /\ res.errType # "none"
    /\ res.message_id = m.id

\* C1: route never lets an exception escape, whatever the message and the
\* downstream outcomes, and returns the error envelope whenever the message
\* was not delivered
C1_RouteNeverRaises ==
    r_pc = "done" =>
        /\ r_raised = "none"
        /\ (~Delivered => IsErrorEnvelope(r_result, r_msg))

\* C2: when the POST times out twice and succeeds on the third attempt, route
\* returns the downstream success response with at most max_retries attempts
C2_TimeoutTwiceThenSuccess ==
    ( /\ r_pc = "done"
      /\ Routable(r_msg)
      /\ r_plan[1] = "timeout" /\ r_plan[2] = "timeout" /\ r_plan[3] = "ok" )
    => /\ r_result.kind = "routed"
       /\ r_result.success
       /\ Len(r_posts) <= max_retries

\* C3: every call makes at most max_retries POST attempts, and a call whose
\* attempts all time out ends, with the retries exhausted, in the error envelope
C3_BoundedRetriesThenEnvelope ==
    /\ Len(r_posts) <= max_retries
    /\ ( ( /\ r_pc = "done"
           /\ Routable(r_msg)
           /\ \A i \in 1..Len(r_plan) : r_plan[i] = "timeout" )
         => /\ Len(r_posts) = max_retries
            /\ r_raised = "none"
            /\ IsErrorEnvelope(r_result, r_msg) )

\* C4: within one call a 4xx answer is never followed by another POST; every
\* attempt that was followed by another one failed with a connection error or
\* a timeout
C4_No4xxRetry ==
    \A i \in 1..Len(r_posts) :
        i < Len(r_posts) => r_posts[i] \in {"connect_error", "timeout"}

\* a call that got a 4xx answer has ended after that single attempt
C4_Witness ==
    /\ r_pc = "done"
    /\ r_posts = <<"status4xx">>
    /\ r_plan[2] = "ok"
    /\ IsErrorEnvelope(r_result, r_msg)

\* C5: no POST is issued for a message that fails validation
C5_ValidationBeforePost ==
    FailsValidation(r_msg) => (r_posts = <<>> /\ r_pc # "posting")

\* a call for a message with an id but neither content nor attachments has
\* ended with the validation error and without a POST
C5_Witness ==
    /\ r_pc = "done"
    /\ ~r_msg.null /\ r_msg.id = "m1" /\ r_msg.content = ""
    /\ r_msg.hasAtt /\ ~r_msg.att
    /\ r_posts = <<>>
    /\ r_result.kind = "envelope" /\ r_result.errType = "ValidationError"

----------------------------------------------------------------------------
(* Properties of handle_webhook and verify_signature *)

\* the signature header, less one optional "sha1=" prefix, is the HMAC of the
\* request body under the channel's secret
SignatureMatches(req) ==
    /\ req.secret # "none"
    /\ req.sig.present
    /\ req.sig.prefixes <= 1
    /\ req.sig.hex = HmacSha1(req.secret, req.body)

C8_VerifyExact ==
    w_verify # "not_run" => (w_verify = "true" <=> SignatureMatches(w_req))

----------------------------------------------------------------------------
(* Properties of the WhatsApp adapter *)

\* C7: with a webhook_secret configured, normalize_message runs only for
\* payloads whose signature has been verified
C7_NormalizeOnlyVerified ==
    (a_recv.ran /\ a_adapter.secret # "none" /\ a_recv.normalizeRan)
        => a_recv.sig = "valid"

\* no required field is missing and phone_number_id is a string of digits
WellFormedConfig(cfg) ==
    /\ ConfigKeys \subseteq cfg.present
    /\ cfg.phone # <<>>
    /\ \A i \in 1..Len(cfg.phone) : cfg.phone[i] \in DigitChars

\* C9: construction returns a Ready adapter (configuration validated, client
\* initialised) or raises ChannelConfigError; with a required field missing
\* or malformed no adapter is returned
C9_FailClosed ==
    a_path # "none" =>
        /\ \/ /\ a_raised = "none"
              /\ a_adapter.exists
              /\ a_adapter.state = "Ready"
              /\ a_adapter.validated
              /\ a_adapter.client
           \/ /\ a_raised = "ChannelConfigError"
              /\ ~a_adapter.exists
        /\ (~WellFormedConfig(a_cfg) =>
                a_raised = "ChannelConfigError" /\ ~a_adapter.exists)

\* the factory was asked for a channel whose phone_number_id is not numeric
\* and raised ChannelConfigError, returning nothing
C9_Witness ==
    /\ a_path = "factory"
    /\ ConfigKeys \subseteq a_cfg.present
    /\ a_cfg.phone = <<"1", "a">>
    /\ a_raised = "ChannelConfigError"
    /\ ~a_adapter.exists

----------------------------------------------------------------------------
(* Properties of the ChannelFactory registry *)

\* the class of the most recent successful registration of type t in log
LastRegistered(log, t) ==
    LET idx == {i \in 1..Len(log) : log[i][1] = t}
    IN  IF idx = {} THEN "none"
        ELSE log[CHOOSE i \in idx : \A j \in idx : j <= i][2]

\* C10: the registry maps each type to the class of the most recent
\* successful register_channel call for it; a duplicate registration with
\* valid arguments is accepted and overrides; the lookups leave the registry
\* unchanged
C10_RegistryLastWriteWins ==
    /\ \A t \in ChannelTypes : f_registry[t] = LastRegistered(f_log, t)
    /\ ( ( /\ f_op = "register_channel"
           /\ f_arg[1] # ""
           /\ IsChannelClass(f_arg[2]) )
         => f_raised = "none" /\ f_registry[f_arg[1]] = f_arg[2] )
    /\ ( f_op \in {"get_channel_types", "get_channel_config", "create_channel"}
         => f_registry = f_before )

\* "whatsapp" was registered a second time, with another class, and the
\* registry now holds the second class
C10_Witness ==
    /\ f_op = "register_channel"
    /\ f_arg = <<"whatsapp", "SmsChannel">>
    /\ f_before["whatsapp"] = "WhatsAppChannel"
    /\ f_raised = "none"
    /\ f_registry["whatsapp"] = "SmsChannel"

----------------------------------------------------------------------------
(* Properties of discovery and of send_message *)

\* C11: when the import of one module of the scanned package raises, the pass
\* goes on: the channel class of every importable module, sub-packages
\* included, is registered, and initialize raises nothing
C11_DiscoveryTolerant ==
    ( /\ d_ran
      /\ \E i \in 1..Len(d_pkg) : ~d_pkg[i].importable )
    => /\ d_raised = "none"
       /\ \A i \in 1..Len(d_pkg) :
            (d_pkg[i].importable /\ d_pkg[i].cls # "none")
                => f_registry[ChannelTypeName(d_pkg[i].cls)] # "none"

\* the client method the claim expects for a supported message type
ExpectedClientCall(t) ==
    CASE t = "text" -> "send_text" [] t = "template" -> "send_template"
      [] t = "media" -> "send_media" [] t = "interactive" -> "send_interactive"
      [] OTHER -> "none"

\* C12: send_message of a supported type (text, template, media, interactive)
\* makes exactly one client call, chosen by the type, and returns a receipt
\* with channel_message_id, status, recipient_id and timestamp; any other type
\* raises MessageProcessingError with no client call
C12_SendDispatch ==
    a_send.ran =>
        IF a_send.type \in {"text", "template", "media", "interactive"}
        THEN (a_send.content = "dict" /\ a_send.client = "ok")
             => /\ a_send.calls = <<ExpectedClientCall(a_send.type)>>
                /\ a_send.raised = "none"
                /\ {"channel_message_id", "status", "recipient_id",
                    "timestamp"} \subseteq a_send.receipt
        ELSE /\ a_send.raised = "MessageProcessingError"
             /\ a_send.calls = <<>>

\* C13: once the signature check has passed, a ValidationError, a
\* NormalizationError or a MessageProcessingError raised while the payload is
\* processed ends in the 200 response {status: error}, never in a 5xx
C13_FailuresSwallowed ==
    ( /\ w_pc = "done"
      /\ w_exc \in {"ValidationError", "NormalizationError",
                    "MessageProcessingError"} )
    => /\ w_status = 200
       /\ w_body = "status error"

----------------------------------------------------------------------------
(* Properties of the normalizers *)

NormDone == n_pc = "done"

\* C14: denormalize of a Message whose message_type is not the normalizer's
\* own raises ValidationError and returns no payload
C14_DenormalizeRejectsMismatch ==
    ( /\ NormDone
      /\ n_in.op = "denormalize"
      /\ n_in.msg.message_type # n_in.kind )
    => /\ "ValidationError" \in ExceptionClasses(n_out.raised)
       /\ ~n_out.returned

\* the normalizer's own validate accepts the payload
PassesValidate(kind, cfg, p) ==
    CASE kind = "text" -> TextValidate(p) = "none"
      [] kind = "image" -> ImageValidate(cfg, p) = "none"
      [] kind = "interactive" -> InteractiveValidate(cfg, p) = "none"
      [] OTHER -> TRUE

\* the payload has none of the sender alias fields
NoSenderAlias(kind, p) ==
    IF kind = "whatsapp" THEN p.from = Absent
    ELSE \A k \in AliasNames : p.sender[k] = Absent

\* C15: normalizing an otherwise well-formed payload that has none of the
\* sender alias fields raises NormalizationError, in the three normalizers
\* and in the WhatsApp adapter, and no Message that a normalization returns
\* has an empty sender_id
C15_MissingSenderFails ==
    (NormDone /\ n_in.op = "normalize")
    => /\ ( /\ NoSenderAlias(n_in.kind, n_in.payload)
            /\ PassesValidate(n_in.kind, n_in.cfg, n_in.payload) )
          => "NormalizationError" \in ExceptionClasses(n_out.raised)
       /\ n_out.returned => n_out.message.sender_id # ""

\* the alias fields in the order the specification fixes
AliasPriority == <<"sender_id", "sender", "from", "user_id", "from_user">>

\* C16: the sender a normalizer extracts is the value of the first alias
\* present, in the order sender_id, sender, from, user_id, from_user; the
\* aliases after it are ignored, so with sender_id present the result is
\* the sender_id value whatever sender holds
C16_SenderPriority ==
    (NormDone /\ n_in.op = "extract_sender_id")
    => /\ \A i \in 1..Len(AliasPriority) :
            ( /\ n_in.sender[AliasPriority[i]] # Absent
              /\ \A j \in 1..(i - 1) : n_in.sender[AliasPriority[j]] = Absent )
            => /\ n_out.raised = "none"
               /\ n_out.value = Str(n_in.sender[AliasPriority[i]])
       /\ (\A k \in AliasNames : n_in.sender[k] = Absent)
            => n_out.raised = "KeyError"

\* sender_id and sender both present with different values: sender_id wins
C16_Witness ==
    /\ NormDone
    /\ n_in.op = "extract_sender_id"
    /\ n_in.sender["sender_id"] = PyStr("u1")
    /\ n_in.sender["sender"] = PyStr("u2")
    /\ n_out.value = "u1"

\* the payload passes the normalizer's validate and names a sender
Accepted(kind, cfg, p) ==
    /\ PassesValidate(kind, cfg, p)
    /\ ~NoSenderAlias(kind, p)

\* C17: normalize of a payload the normalizer accepts, by a normalizer with
\* a tenant and a channel, returns a Message with non-empty tenant_id and
\* channel_id and a content_type that fits its message_type, which
\* Message.validate() accepts; a normalizer that cannot establish this
\* returns no Message
C17_NormalizedMessageValid ==
    ( /\ NormDone
      /\ n_in.op = "normalize"
      /\ n_in.kind \in NormalizerKinds
      /\ Accepted(n_in.kind, n_in.cfg, n_in.payload) )
    => IF n_in.cfg.tenant_id # "" /\ n_in.cfg.channel_id # ""
       THEN /\ n_out.returned
            /\ n_out.message.tenant_id # ""
            /\ n_out.message.channel_id # ""
            /\ MessageValidate(n_out.message, TRUE) = "none"
       ELSE ~n_out.returned

\* the content of a payload as the round trip has to give it back
SameContent(kind, p, out) ==
    CASE kind = "text" -> out.text = p.text
      [] kind = "image" -> out.ref = p.ref
      [] OTHER ->
            /\ Len(out.ids) = Len(p.buttons)
            /\ \A i \in 1..Len(p.buttons) :
                  p.buttons[i].id # Absent => out.ids[i] = Str(p.buttons[i].id)

\* C18: for text, image and interactive, a payload x that normalize accepts
\* makes the round trip: denormalize(normalize(x)) has the type and the
\* sender of x and the same content (the text; the image reference; as many
\* elements, with the same ids)
C18_RoundTrip ==
    ( /\ NormDone
      /\ n_in.op = "round_trip"
      /\ Accepted(n_in.kind, n_in.cfg, n_in.payload) )
    => /\ n_out.normalize.returned
       /\ n_out.denormalize.returned
       /\ n_out.denormalize.payload.type = n_in.kind
       /\ n_out.denormalize.payload.sender
            = extract_sender_id(n_in.payload.sender).value
       /\ SameContent(n_in.kind, n_in.payload, n_out.denormalize.payload)

\* the last three characters are dots
EndsWithEllipsis(s) ==
    /\ Len(s) >= 3
    /\ SubSeq(s, Len(s) - 2, Len(s)) = <<".", ".", ".">>

\* C19 as stated: for every text longer than max_length, clean_text returns
\* a string of exactly max_length characters that ends with "..."
C19_TruncationAsStated ==
    ( /\ NormDone
      /\ n_in.op = "clean_text"
      /\ Len(n_in.text) > n_in.max_length )
    => /\ Len(n_out.text) = n_in.max_length
       /\ EndsWithEllipsis(n_out.text)

\* C19: for max_length of at least 3 and every text that is still longer
\* than max_length once control characters are removed and whitespace is
\* trimmed and collapsed, clean_text returns a string of exactly max_length
\* characters that ends with "..."
C19_Truncation ==
    ( /\ NormDone
      /\ n_in.op = "clean_text"
      /\ n_in.max_length >= 3
      /\ Len(Cleaned(n_in.text)) > n_in.max_length )
    => /\ Len(n_out.text) = n_in.max_length
       /\ EndsWithEllipsis(n_out.text)

\* a text cut down to max_length
C19_Witness ==
    /\ NormDone
    /\ n_in.op = "clean_text"
    /\ n_in.max_length >= 3
    /\ Len(Cleaned(n_in.text)) > n_in.max_length
    /\ Len(n_out.text) = n_in.max_length
    /\ EndsWithEllipsis(n_out.text)

\* the reference is an http or https URL
IsHttpUrl(ref) ==
    /\ urlparse(ref).scheme \in {"http", "https"}
    /\ urlparse(ref).netloc # ""

\* the reference is no URL at all: a file id or an opaque reference
IsOpaque(ref) == urlparse(ref).scheme = "" /\ urlparse(ref).netloc = ""

\* C20: with allow_remote_urls false, ImageNormalizer.normalize of a payload
\* whose image reference is an http or https URL raises ValidationError and
\* returns no Message; a reference that is no URL is valid under either
\* setting
C20_RemoteUrlRefused ==
    /\ ( /\ NormDone
         /\ n_in.op = "normalize"
         /\ n_in.kind = "image"
         /\ n_in.payload.shape = "dict"
         /\ n_in.payload.field # "none"
         /\ IsHttpUrl(n_in.payload.ref)
         /\ ~n_in.cfg.allow_remote_urls )
       => /\ "ValidationError" \in ExceptionClasses(n_out.raised)
          /\ ~n_out.returned
    /\ ( /\ NormDone
         /\ n_in.op = "handle_url"
         /\ IsOpaque(n_in.ref) )
       => /\ n_out.raised = "none"
          /\ n_out.is_valid

----------------------------------------------------------------------------------------------------------------------------------------------------------------------------------------------------------------------------------------------------------------------------------------------------------------------------
(* Properties of the ConnectionManager *)

\* C29: a connect call whose websocket accept succeeds ends with the new
\* connection stored under (tenant_id, user_id, client_id) and its
\* client_id returned, whatever disconnect, send_message, broadcast and
\* cleanup steps of other clients ran while it was suspended in accept
C29_ConnectStores ==
    [][ ( /\ ConnectResume
          /\ cm_call'.raised # "RuntimeError"
          /\ ~cm_call.own_removed )
        => /\ cm_call'.returned = cm_call.key.client_id
           /\ cm_call'.raised = "none"
           /\ has_connection(cm_conns', cm_call.key) ]_vars

----------------------------------------------------------------------------
(* Properties of the MemoryCache *)

\* C30: get, exists, set, delete and flush called with tenant_id = t never
\* read, overwrite or remove an item that was stored under a different
\* tenant id or under no tenant, and flush(tenant_id = t) removes exactly
\* the items that were set with tenant_id = t
C30_TenantIsolation ==
    [][ ( /\ CacheGet \/ CacheExists \/ CacheSet \/ CacheDelete
             \/ CacheFlush
          /\ mc_call'.tenant_id # NoTenant )
        => /\ \A k \in DOMAIN mc_cache :
                mc_cache[k].value.tenant_id # mc_call'.tenant_id
                => k \in DOMAIN mc_cache' /\ mc_cache'[k] = mc_cache[k]
           /\ ( mc_call'.op = "get" /\ mc_call'.hit )
                => mc_call'.value.tenant_id = mc_call'.tenant_id
           /\ ( mc_call'.op = "exists" /\ mc_call'.hit )
                => mc_cache[build_key(mc_call'.key, mc_call'.tenant_id)]
                       .value.tenant_id = mc_call'.tenant_id
           /\ mc_call'.op = "flush"
                => DOMAIN mc_cache \ DOMAIN mc_cache' =
                       {k \in DOMAIN mc_cache :
                            mc_cache[k].value.tenant_id
                                = mc_call'.tenant_id} ]_vars

----------------------------------------------------------------------------
(* Properties of the RedisCacheClient circuit breaker *)

\* C27: while the breaker is OPEN and no more than reset_timeout seconds
\* have passed since last_failure_time, every _execute_redis_command call
\* raises CacheError, does not invoke the command and leaves the breaker as
\* it is
C27_OpenRejects ==
    [][ ( /\ ExecuteRedisCommand
          /\ cb_breaker.state = "open"
          /\ cb_now - cb_breaker.last_failure_time <= reset_timeout )
        => /\ ~cb_call'.invoked
           /\ cb_call'.raised = "CacheError"
           /\ cb_breaker' = cb_breaker ]_vars

\* a command was refused at exactly reset_timeout seconds after the failure
C27_Witness ==
    /\ cb_breaker.state = "open"
    /\ cb_now - cb_breaker.last_failure_time = reset_timeout
    /\ ~cb_call.invoked /\ cb_call.raised = "CacheError"

\* C28: the breaker leaves CLOSED only on the failure that makes
\* failure_threshold failures in a row (so CLOSED implies failure_count <
\* failure_threshold); once reset_timeout has elapsed in OPEN the next
\* command is let through as a HALF_OPEN probe; a failed probe returns the
\* breaker to OPEN with last_failure_time now, and a successful command
\* leaves it CLOSED with failure_count 0
C28_BreakerTransitions ==
    /\ [](cb_breaker.state = "closed"
           => cb_breaker.failure_count < failure_threshold)
    /\ [][ (cb_breaker.state = "closed" /\ cb_breaker'.state # "closed")
           => /\ ExecuteRedisCommand
              /\ cb_call'.outcome = "RedisError"
              /\ cb_streak' = failure_threshold ]_vars
    /\ [][ ( /\ ExecuteRedisCommand
             /\ cb_breaker.state = "open"
             /\ cb_now - cb_breaker.last_failure_time > reset_timeout )
           => cb_call'.invoked /\ cb_call'.probe ]_vars
    /\ [][ ( /\ ExecuteRedisCommand
             /\ cb_call'.probe
             /\ cb_call'.outcome = "RedisError" )
           => /\ cb_breaker'.state = "open"
              /\ cb_breaker'.last_failure_time = cb_now ]_vars
    /\ [][ ( /\ ExecuteRedisCommand
             /\ cb_call'.invoked
             /\ cb_call'.outcome = "ok" )
           => /\ cb_breaker'.state = "closed"
              /\ cb_breaker'.failure_count = 0 ]_vars

\* a probe made after reset_timeout succeeded and closed the breaker
C28_Witness ==
    /\ cb_call.probe /\ cb_call.outcome = "ok"
    /\ cb_breaker.state = "closed"
    /\ cb_breaker.last_failure_time >= 0

----------------
(* Properties of the InteractiveNormalizer *)

\* the sub-type by the stated order: top-level type, nested type, then the
\* keys buttons, items or list, quick_replies or replies, carousel, card
StatedInteractiveType(p) ==
    IF p.type # Absent /\ Lower(Str(p.type)) \in INTERACTIVE_TYPES
    THEN Lower(Str(p.type))
    ELSE IF p.nested # Absent /\ Lower(Str(p.nested)) \in INTERACTIVE_TYPES
    THEN Lower(Str(p.nested))
    ELSE IF p.hasButtons THEN "button"
    ELSE IF p.keys \cap {"items", "list"} # {} THEN "list"
    ELSE IF p.keys \cap {"quick_replies", "replies"} # {} THEN "quick_reply"
    ELSE IF "carousel" \in p.keys THEN "carousel"
    ELSE IF "card" \in p.keys THEN "card"
    ELSE "unknown"

\* C24: _determine_interactive_type returns the first match in the order
\* top-level type, nested interactive.type, buttons, items or list,
\* quick_replies or replies, carousel, card, and "unknown" when none
\* matches; normalize of a payload whose sub-type is "unknown" raises and
\* returns no Message
C24_InteractiveTypeOrder ==
    /\ (NormDone /\ n_in.op = "determine_interactive_type")
       => n_out.value = StatedInteractiveType(n_in)
    /\ ( /\ NormDone
         /\ n_in.op = "normalize"
         /\ n_in.kind = "interactive"
         /\ n_in.payload.shape = "dict"
         /\ determine_interactive_type(n_in.payload) = "unknown" )
       => n_out.raised # "none" /\ ~n_out.returned

\* C25: a payload with buttons that InteractiveNormalizer accepts is
\* normalized to a Message whose metadata holds the detected sub-type and
\* the number of elements of its content, and denormalize of that Message
\* gives a structure of that sub-type with every one of the elements
C25_InteractiveMetadata ==
    ( /\ NormDone
      /\ n_in.op = "round_trip"
      /\ n_in.kind = "interactive"
      /\ Accepted(n_in.kind, n_in.cfg, n_in.payload)
      /\ extract_interactive_elements(n_in.payload) # <<>> )
    => /\ n_out.normalize.returned
       /\ n_out.normalize.message.metadata.interactive_type
            = determine_interactive_type(n_in.payload)
       /\ n_out.normalize.message.metadata.interactive_count
            = Len(n_out.normalize.message.content)
       /\ n_out.denormalize.returned
       /\ n_out.denormalize.payload.itype
            = determine_interactive_type(n_in.payload)
       /\ Len(n_out.denormalize.payload.ids)
            = Len(n_out.normalize.message.content)

----------------
(* Concurrent register_channel calls *)

RECURSIVE SequentialResult(_)
\* the registry after the register_channel calls of log, made one after the
\* other on an empty registry
SequentialResult(log) ==
    IF log = << >> THEN [t \in ChannelTypes |-> "none"]
    ELSE register_channel(SequentialResult(SubSeq(log, 1, Len(log) - 1)),
                          log[Len(log)][1], log[Len(log)][2]).registry

----------------
(* Cancellation of ChatRouter.route *)

\* C22: once the task running route has been cancelled, no further POST
\* attempt is made for that message
C22_CancelStopsRetry ==
    [][r_cancelled => ~(Len(r_posts') > Len(r_posts))]_vars

\* a call cancelled while its first POST was in flight has ended
C22_Witness ==
    r_cancelled /\ r_pc = "done" /\ r_raised = "CancelledError"

----------------
(* Properties of the TextFormatter *)

\* C21: a call of TextFormatter.format leaves its input alone: once it is
\* over, the content of the Message given to it is what it was before
C21_FormatLeavesInput ==
    (t_pc = "done" /\ t_in.op = "format") => t_msg = t_in.text

RECURSIVE RemovePairs(_, _)
\* text with each marker pair, matched left to right, removed
RemovePairs(text, m) ==
    LET s == Find(text, m, 0)
        e == IF s = -1 THEN -1 ELSE Find(text, m, s + Len(m))
    IN  IF s = -1 \/ e = -1 THEN text
        ELSE SubSeq(text, 1, s) \o SubSeq(text, s + Len(m) + 1, e)
             \o RemovePairs(SubSeq(text, e + Len(m) + 1, Len(text)), m)

\* C26: strip_unsupported(text, m, m) terminates, and what it returns is the
\* text without its marker pairs, matched left to right, every other
\* character (a marker without a partner included) kept in place
C26_StripUnsupported ==
    /\ [](t_pc = "loop" => <>(t_pc = "done"))
    /\ []((t_pc = "done" /\ t_in.op = "strip_unsupported")
            => t_out.value = RemovePairs(t_in.text, t_in.arg))

\* a text with nested-looking markers has been stripped
C26_Witness ==
    /\ t_pc = "done" /\ t_in.op = "strip_unsupported"
    /\ t_in.text = <<"_", "a", "_", "a", "_">>
    /\ t_out.value = <<"a", "a", "_">>

====
